---- MODULE Spec2Model ----
(***************************************************************************)
(* Model of the nota-orbis audio ingestion pipeline.                       *)
(*                                                                         *)
(*   Spec       the service orchestrator (internal/transcribe/service.go)  *)
(*              with the inotify watcher, the poll stabilizer, the simple  *)
(*              writer and the simple archiver it is wired to.             *)
(*   SpecOneFile  the same orchestrator with one file and every kind of    *)
(*              retry_count and endpoint answer.                           *)
(*   SpecRetry  client.RetryClient.Transcribe (client/retry.go) driven by  *)
(*              a wrapped client that answers with arbitrary errors.       *)
(*   SpecRestart  the orchestrator restarted over a watch directory that   *)
(*              already holds files, with fair scheduling.                 *)
(*   SpecDaemon   transcribe start --daemon, stop and status over the PID  *)
(*              file and the process table.                                *)
(*   SpecShutdown  SpecOneFile with Run and the workers scheduled fairly.  *)
(*   SpecPidFile, SpecStab, SpecWatch, SpecLog, SpecArchive, SpecOutput,   *)
(*   SpecOutput2, SpecConfig, SpecVault, SpecStop, SpecStatus              *)
(*              one component each, called on its own: the PID file        *)
(*              reader, WaitForStable, the inotify read loop, the file     *)
(*              logger, FileArchiver, output.Writer (one call, and two     *)
(*              calls at once), the configuration loader,                  *)
(*              vault.FindVaultRoot, Service.Run with Service.Stop, and    *)
(*              the status snapshot parsed from the log.                   *)
(***************************************************************************)
EXTENDS Integers, Sequences, FiniteSets, TLC

\* ---------------------------------------------------------------- bounds
\* number of files the user writes into the watch directory
MaxArrivals == 2
\* wall clock, in seconds, runs from 0 to MaxClock
MaxClock == 1
\* largest retry_count found in the configuration file
MaxRetryCfg == 1
\* largest max_retry passed to WithRetryCount
MaxRetryOpt == 2
\* number of transcribe start --daemon, stop and status invocations
MaxCmds == 2
\* longest body of the PID file, in characters
MaxBody == 3
\* largest number of consecutive stable samples WaitForStable is asked for
MaxChecks == 2
\* number of samples one WaitForStable call takes at most
MaxSamples == 4
\* largest file size a sample reports
MaxSampleSize == 1
\* largest number of inotify events one unix.Read returns
MaxBatch == 2
\* number of InotifyWatcher.Stop() calls
MaxStops == 2
\* number of component loggers made with WithComponent (one per worker)
MaxLoggers == 2
\* the date changes at most this many times while the service runs
MaxDay == 1
\* largest size of a file handed to FileArchiver.Archive, in blocks of io.Copy
MaxBlocks == 2
\* the output directory starts with the first names taken, up to this many, or
\* with all names but the last ones taken, down to this many
MaxPre == 2
\* number of sequential Writer.Write calls
MaxWrites == 2
\* longest path written in transcribe.json, in characters
MaxPath == 2
\* depth of the working directory below the filesystem root, at most
MaxDepth == 2
\* number of workers Run has in flight at once, at most
MaxInFlight == 2
\* longest source or output path in a log line, in characters
MaxName == 2
\* number of workers that reach done in one day, at most
MaxDone == 2

\* ------------------------------------------------------ program constants
DefaultStabilizationChecks == 3
DefaultMaxFileSizeMB == 100
DefaultRetryCount == 3
BytesPerMB == 1048576
\* const DefaultBaseDelay = 1 * time.Second
DefaultBaseDelay == 1
\* events := make(chan FileEvent, 100)
ChanCap == 100
\* for i := 2; i <= 1000; i++
SuffixCap == 1000

\* ------------------------------------------------------------- variables
VARIABLES
    cfg,          \* *Config after ApplyDefaults
    clock,        \* time.Now(), seconds
    budget,       \* files the user has yet to write
    endpoint,     \* the answers the transcription endpoint gives to a request
    watchDir,     \* files of the watch directory: name -> size, or NoFile
    outDir,       \* output directory: path -> id of the event it holds, 0 = none
    archive,      \* archive tree: the paths that hold a file
    inotifyQ,     \* kernel queue of the inotify descriptor
    batch,        \* names of the read() the watcher goroutine is parsing
    events,       \* the watcher's buffered channel
    eventsClosed, \* close(events) has run
    emitted,      \* number of events the watcher has sent
    wpc,          \* readEvents goroutine: "reading" or "exited"
    wStopped,     \* InotifyWatcher.stopped
    ctxDone,      \* the root context of Run is cancelled
    runpc,        \* Run: "loop", "waiting" (wg.Wait), "returned", "crashed"
    workers,      \* one record per dispatched event
    rc,           \* state of one RetryClient.Transcribe call
    pidFile,      \* ~/.nota/transcribe.pid: the PID it holds, or NoPid (absent)
    procs,        \* the daemon child processes, by PID
    cmds,         \* the invocations of transcribe start --daemon, stop, status
    pf,           \* one pidfile.IsRunning call: the file, the probe, the result
    stab,         \* one PollStabilizer.WaitForStable call
    wch,          \* one InotifyWatcher: its goroutine, its channel and its callers
    lg,           \* the service FileLogger and the loggers made from it
    ar,           \* one FileArchiver.Archive call and the two files it works on
    wr,           \* the output directory and the latest output.Writer.Write call
    cf,           \* the configuration through Load, ApplyDefaults and Validate
    vt,           \* one vault.FindVaultRoot call and the directories it looks at
    ow,           \* two output.Writer.Write calls running at once on one directory
    sv,           \* Service.Run, Service.Stop and the stop channel
    st            \* today's log file and the status snapshot parsed from it

envVars == <<cfg, clock, budget, endpoint>>

fsVars == <<watchDir, outDir, archive>>

watcherVars == <<inotifyQ, batch, events, eventsClosed, emitted, wpc, wStopped>>

runVars == <<ctxDone, runpc>>

dmVars == <<pidFile, procs, cmds>>
\* the components exercised on their own
unitVars == <<pf, stab, wch, lg, ar, wr, cf, vt, ow, sv, st>>

vars == <<envVars, fsVars, watcherVars, runVars, workers, rc, dmVars, unitVars>>

\* ------------------------------------------------------------ file names
\* A basename is kept as stem and extension, the two parts filepath.Ext splits.
Names == { [stem |-> "a", ext |-> "m4a"],
           [stem |-> "a", ext |-> "mp3"] }

Stems == { n.stem : n \in Names }

NoFile == -1

NoName == [stem |-> "", ext |-> ""]

Present(dir, n) == dir[n] # NoFile

\* DefaultWatchPatterns: *.m4a, *.mp3, *.wav
DefaultWatchPatterns == { "m4a", "mp3", "wav" }

\* InotifyWatcher.matchesPatterns
matchesPatterns(patterns, n) ==
    IF patterns = {} THEN TRUE ELSE n.ext \in patterns

\* ------------------------------------------------------------ configuration
RawConfigs(retries) ==
    [ RetryCount : retries,
      MaxFileSizeMB : {0},
      StabilizationChecks : {1},
      WatchPatterns : {{}} ]

\* Config.ApplyDefaults
ApplyDefaults(c) ==
    [ RetryCount |-> IF c.RetryCount = 0 THEN DefaultRetryCount ELSE c.RetryCount,
      MaxFileSizeMB |-> IF c.MaxFileSizeMB = 0 THEN DefaultMaxFileSizeMB
                        ELSE c.MaxFileSizeMB,
      StabilizationChecks |-> IF c.StabilizationChecks = 0
                              THEN DefaultStabilizationChecks
                              ELSE c.StabilizationChecks,
      WatchPatterns |-> IF c.WatchPatterns = {} THEN DefaultWatchPatterns
                        ELSE c.WatchPatterns ]

\* maxSize := int64(s.config.MaxFileSizeMB) * 1024 * 1024
maxSize(c) == c.MaxFileSizeMB * BytesPerMB

\* sizes a file takes: exactly the limit, and one byte over
Sizes(c) == { maxSize(c), maxSize(c) + 1 }

\* --------------------------------------------------------- paths and events
\* SimpleWriter names the artifact <stem>-<timestamp>.md
OutPaths == [stem : Stems, ts : 0 .. MaxClock]

NoOut == [stem |-> "", ts |-> -1]

\* SimpleArchiver names the copy <base> or <stem>-<HHMMSS><ext>; suffix -1 = none
ArchPaths == [stem : Stems, ext : { n.ext : n \in Names }, suffix : -1 .. MaxClock]

EventIds == 1 .. MaxArrivals

\* the state of a processFile goroutine
NoWorker ==
    [ pc |-> "none", path |-> NoName, size |-> 0, ts |-> 0,
      lastSize |-> -1, stableCount |-> 0,
      attempt |-> 0, answers |-> << >>,
      outPath |-> NoOut, wrote |-> FALSE ]

\* processFile returns: the goroutine's locals are gone; what stays is what
\* its log lines tell (the path, the size and, for "transcription failed", the
\* attempts)
Finish(w, pc) ==
    [NoWorker EXCEPT !.pc = pc, !.path = w.path, !.size = w.size,
                     !.answers = IF pc = "failed_transcribe" THEN w.answers
                                 ELSE << >>]

Terminal ==
    { "done", "skipped", "failed_stabilize", "failed_transcribe",
      "failed_write", "failed_archive" }

Failed == Terminal \ { "done" }

\* the process is running: Run has not returned and no goroutine has panicked
Alive == runpc \in { "loop", "waiting" }

\* ----------------------------------------------------------- daemon state
\* every start --daemon spawns at most one child; PIDs are handed out in order
Pids == 1 .. MaxCmds

\* pidfile.Read: ErrNoPIDFile
NoPid == 0

CmdIds == 1 .. MaxCmds

\* a command that has not been invoked. found = the answer of its first
\* IsRunning, pid = the PID IsRunning returned, child = the PID it spawned,
\* sigs = the signals it sent, touched = it wrote or removed the PID file
NoCmd ==
    [ kind |-> "none", pc |-> "none", found |-> "none", pid |-> NoPid,
      child |-> NoPid, ret |-> "none", msg |-> "none", sigs |-> 0,
      touched |-> FALSE ]

\* ------------------------------------------------ components on their own
\* no call of pidfile.IsRunning is under way
PfIdle ==
    [ exists |-> FALSE, body |-> <<>>, probe |-> "ESRCH", done |-> FALSE,
      out |-> [running |-> FALSE, pid |-> 0, err |-> "nil"] ]

\* no WaitForStable call is under way
StabIdle ==
    [ checks |-> 0, timeout |-> 0, callerDeadline |-> FALSE, pc |-> "idle",
      using |-> FALSE, lastSize |-> -1, stableCount |-> 0, samples |-> <<>>,
      callerErr |-> "nil", ctxErr |-> "nil", first |-> "none", via |-> "none",
      ret |-> "none" ]

\* no watcher exists
WchIdle ==
    [ pc |-> "idle", left |-> 0, chanLen |-> 0, closes |-> 0, stopped |-> FALSE,
      stopCalls |-> 0, ctxDone |-> FALSE ]

\* the loggers: 0 is the service's, made by logging.New; the others are made
\* by WithComponent
Loggers == 0 .. MaxLoggers

\* logging.New has opened descriptor 1 for day 0
LgIdle ==
    [ n |-> 0, today |-> 0, opened |-> 1, closed |-> { },
      pc |-> [l \in Loggers |-> "idle"],
      file |-> [l \in Loggers |-> IF l = 0 THEN 1 ELSE 0],
      date |-> [l \in Loggers |-> 0], shut |-> FALSE ]

\* no Archive call is under way
ArIdle ==
    [ pc |-> "idle", size |-> 0, same |-> FALSE, ctxDone |-> FALSE,
      src |-> [exists |-> FALSE, len |-> 0],
      dst |-> [exists |-> FALSE, len |-> 0, mine |-> FALSE],
      ret |-> "none" ]

\* no Write call was made; names are numbered 1 (base.md), 2 (base-2.md), ...
WrIdle ==
    [ dir |-> { }, calls |-> 0, before |-> { }, path |-> 0, ret |-> "none",
      over |-> FALSE ]

\* no configuration is being loaded
CfIdle ==
    [ pc |-> "idle", WatchDir |-> <<>>, OutputDir |-> <<>>, ArchiveDir |-> <<>>,
      TemplatePath |-> [set |-> FALSE, path |-> <<>>], err |-> "nil" ]

\* no directory
NoDir == -2
\* a directory that is not the working directory or one of its ancestors
Elsewhere == -1

\* no FindVaultRoot call is under way
VtIdle ==
    [ pc |-> "idle", vaults |-> { }, cwd |-> 0, env |-> NoDir, wdOk |-> TRUE,
      root |-> NoDir, err |-> "nil" ]

\* the concurrent Write calls, and the names of one minute they can meet
Writers == { 1, 2 }
OwNames == 1 .. MaxPre + 2

\* no concurrent Write call is under way
OwIdle ==
    [ text |-> [n \in OwNames |-> 0],
      call |-> [c \in Writers |-> [pc |-> "idle", cand |-> 0, ret |-> "none", path |-> 0]] ]

\* NewService has returned and Run is in its event loop
SvIdle ==
    [ run |-> "loop", closes |-> 0, stops |-> 0, ctxDone |-> FALSE, sig |-> FALSE,
      evClosed |-> FALSE, inflight |-> 0, wStopped |-> FALSE, logClosed |-> FALSE ]

\* the log holds no completion line and has not been parsed
StIdle == [ log |-> << >>, done |-> << >>, parsed |-> FALSE, files |-> 0,
            last |-> [set |-> FALSE, ts |-> 0, path |-> << >>, out |-> << >>] ]

\* every component but u is idle
UnitsIdle(u) ==
    /\ IF u = "pf" THEN TRUE ELSE pf = PfIdle
    /\ IF u = "stab" THEN TRUE ELSE stab = StabIdle
    /\ IF u = "wch" THEN TRUE ELSE wch = WchIdle
    /\ IF u = "lg" THEN TRUE ELSE lg = Loggers
    /\ IF u = "ar" THEN TRUE ELSE ar = ArIdle
    /\ IF u = "wr" THEN TRUE ELSE wr = WrIdle
    /\ IF u = "cf" THEN TRUE ELSE cf = CfIdle
    /\ IF u = "vt" THEN TRUE ELSE vt = VtIdle
    /\ IF u = "ow" THEN TRUE ELSE ow = OwIdle
    /\ IF u = "sv" THEN TRUE ELSE sv = SvIdle
    /\ IF u = "st" THEN TRUE ELSE st = StIdle

\* ------------------------------------------------------------------- Init
\* a source file the previous process left in the watch directory
Leftover == [stem |-> "a", ext |-> "m4a"]

\* no call of RetryClient.Transcribe is under way (NewService builds the
\* WhisperASRClient without the wrapper)
RetryIdle ==
    [ pc |-> "idle", maxRetry |-> 0, attempt |-> 0, errs |-> << >>,
      remaining |-> 0, ctxDone |-> FALSE, ret |-> "none" ]

\* NewService: cfg.ApplyDefaults() on the configuration file, then the
\* components are built; quota files will be written by the user, and the
\* files named in left are in the watch directory already
InitServiceWith(retries, quota, answers, left) ==
    /\ cfg \in { ApplyDefaults(c) : c \in RawConfigs(retries) }
    /\ clock = 0
    /\ budget = quota
    /\ endpoint = answers
    /\ watchDir = [n \in Names |-> IF n \in left THEN maxSize(cfg) ELSE NoFile]
    /\ outDir = [p \in OutPaths |-> 0]
    /\ archive = {}
    /\ inotifyQ = << >>
    /\ batch = << >>
    /\ events = << >>
    /\ eventsClosed = FALSE
    /\ emitted = 0
    /\ wpc = "reading"
    /\ wStopped = FALSE
    /\ ctxDone = FALSE
    /\ runpc = "loop"
    /\ workers = [i \in EventIds |-> NoWorker]
    /\ pidFile = NoPid
    /\ procs = [p \in Pids |-> "none"]
    /\ cmds = [k \in CmdIds |-> NoCmd]

\* the service starts on an empty watch directory
InitService(retries, quota, answers) ==
    InitServiceWith(retries, quota, answers, { })

\* several files arrive; retry_count is 1, or negative; the endpoint
\* transcribes or is down
Init ==
    /\ InitService({ -1, 1 }, MaxArrivals, { "ok", "e5xx" })
    /\ rc = RetryIdle
    /\ UnitsIdle("none")

\* one file arrives; retry_count is anything from -1 to MaxRetryCfg
InitOneFile ==
    /\ InitService(-1 .. MaxRetryCfg, 1, { "ok", "e4xx", "e5xx" })
    /\ rc = RetryIdle
    /\ UnitsIdle("none")

\* ------------------------------------------------------------ environment
\* The user (or the sync agent) writes a file into the watch directory, new or
\* over the file of that name, and closes it: the kernel queues IN_CLOSE_WRITE
\* while the watch is registered.
UserWrite(n, sz) ==
    /\ runpc = "loop"
    /\ budget > 0
    /\ budget' = budget - 1
    /\ watchDir' = [watchDir EXCEPT ![n] = sz]
    /\ inotifyQ' = IF wStopped THEN inotifyQ ELSE Append(inotifyQ, n)
    /\ UNCHANGED <<cfg, clock, endpoint, outDir, archive, batch, events, eventsClosed,
                   emitted, wpc, wStopped, runVars, workers, rc, dmVars, unitVars>>

\* the current second has been read by time.Now() and is held in a timestamp
\* or in a file name
ClockUsed ==
    \/ \E k \in 1 .. Len(events) : events[k].ts = clock
    \/ \E i \in EventIds : workers[i].pc \notin Terminal \cup { "none" }
                             /\ workers[i].ts = clock
    \/ \E p \in OutPaths : p.ts = clock /\ outDir[p] # 0
    \/ \E p \in archive : p.suffix = clock

\* A second passes. Only the order and the equality of seconds are observed, so
\* the clock moves on once the current second has been used.
Tick ==
    /\ Alive
    /\ ClockUsed
    /\ clock < MaxClock
    /\ clock' = clock + 1
    /\ UNCHANGED <<cfg, budget, endpoint, fsVars, watcherVars, runVars, workers, rc, dmVars, unitVars>>

\* the caller of Run cancels the context it passed
ParentCancel ==
    /\ Alive
    /\ ~ctxDone
    /\ ctxDone' = TRUE
    /\ UNCHANGED <<envVars, fsVars, watcherVars, runpc, workers, rc, dmVars, unitVars>>

\* ---------------------------------------------------------------- watcher
\* readEvents: unix.Read returns the queued events
WatcherRead ==
    /\ Alive
    /\ wpc = "reading"
    /\ batch = << >>
    /\ ~ctxDone /\ ~wStopped
    /\ inotifyQ # << >>
    /\ batch' = inotifyQ
    /\ inotifyQ' = << >>
    /\ UNCHANGED <<envVars, fsVars, events, eventsClosed, emitted, wpc,
                   wStopped, runVars, workers, rc, dmVars, unitVars>>

\* readEvents: one event of the buffer is parsed; a matching name that can be
\* stat'ed is sent on the channel, which blocks while the channel is full
WatcherEmit ==
    /\ Alive
    /\ wpc = "reading"
    /\ batch # << >>
    /\ LET n == Head(batch)
           send == matchesPatterns(cfg.WatchPatterns, n) /\ Present(watchDir, n)
       IN  /\ send => Len(events) < ChanCap
           /\ events' = IF send
                        THEN Append(events, [id |-> emitted + 1, path |-> n,
                                             size |-> watchDir[n], ts |-> clock])
                        ELSE events
           /\ emitted' = IF send THEN emitted + 1 ELSE emitted
    /\ batch' = Tail(batch)
    /\ UNCHANGED <<envVars, fsVars, inotifyQ, eventsClosed, wpc, wStopped,
                   runVars, workers, rc, dmVars, unitVars>>

\* readEvents returns at the top of its loop on ctx.Done or stopCh, or when
\* Read fails on the closed descriptor; the deferred close(events) runs
WatcherExit ==
    /\ Alive
    /\ wpc = "reading"
    /\ batch = << >>
    /\ ctxDone \/ wStopped
    /\ wpc' = "exited"
    /\ eventsClosed' = TRUE
    /\ UNCHANGED <<envVars, fsVars, inotifyQ, batch, events, emitted, wStopped,
                   runVars, workers, rc, dmVars, unitVars>>

\* readEvents: Read fails with an error other than EAGAIN (EINTR): return
WatcherReadFail ==
    /\ Alive
    /\ wpc = "reading"
    /\ batch = << >>
    /\ ~ctxDone /\ ~wStopped
    /\ wpc' = "exited"
    /\ eventsClosed' = TRUE
    /\ UNCHANGED <<envVars, fsVars, inotifyQ, batch, events, emitted, wStopped,
                   runVars, workers, rc, dmVars, unitVars>>

\* ------------------------------------------------------------------- Run
TooLargeOrEqual(c, sz) == sz >= maxSize(c)

\* processFile: if event.Size > maxSize
TooLarge(c, sz) == sz > maxSize(c)

\* handleFileEvent: wg.Add(1) and go processFile(ctx, event), which runs up to
\* the first wait: the size check, then the entry of WaitForStable
\* (for stableCount < s.Checks); both read the event and the configuration only
NewWorker(ev) ==
    LET w == [NoWorker EXCEPT !.path = ev.path, !.size = ev.size, !.ts = ev.ts,
                              !.attempt = 1]
    IN  IF TooLarge(cfg, ev.size) THEN Finish(w, "skipped")
        ELSE IF 0 < cfg.StabilizationChecks THEN [w EXCEPT !.pc = "stabilize"]
        ELSE [w EXCEPT !.pc = "transcribe"]

\* Run: case event, ok := <-events with ok
RunDispatch ==
    /\ runpc = "loop"
    /\ events # << >>
    /\ workers' = [workers EXCEPT ![Head(events).id] = NewWorker(Head(events))]
    /\ events' = Tail(events)
    /\ UNCHANGED <<envVars, fsVars, inotifyQ, batch, eventsClosed, emitted, wpc,
                   wStopped, runVars, rc, dmVars, unitVars>>

\* shutdown up to wg.Wait: close(stopCh), watcher.Stop()
RunShutdown ==
    /\ runpc' = "waiting"
    /\ wStopped' = TRUE
    /\ inotifyQ' = << >>
    /\ UNCHANGED <<envVars, fsVars, batch, events, eventsClosed, emitted, wpc,
                   workers, rc, dmVars, unitVars>>

\* Run: case <-ctx.Done()
RunCtxDone ==
    /\ runpc = "loop"
    /\ ctxDone
    /\ RunShutdown
    /\ UNCHANGED ctxDone

\* Run: SIGINT or SIGTERM arrives in sigCh and case sig := <-sigCh is taken:
\* cancel(), then shutdown
RunSignal ==
    /\ runpc = "loop"
    /\ ~ctxDone
    /\ ctxDone' = TRUE
    /\ RunShutdown

\* Run: case event, ok := <-events with !ok
RunChanClosed ==
    /\ runpc = "loop"
    /\ events = << >>
    /\ eventsClosed
    /\ RunShutdown
    /\ UNCHANGED ctxDone

RunReturnNoWait ==
    /\ runpc = "waiting"
    /\ runpc' = "returned"
    /\ ctxDone' = TRUE
    /\ UNCHANGED <<envVars, fsVars, watcherVars, workers, rc, dmVars, unitVars>>

\* shutdown: wg.Wait() returns, the logger is closed, Run returns and the
\* deferred cancel() runs
RunReturn ==
    /\ runpc = "waiting"
    /\ \A i \in EventIds : workers[i].pc \in Terminal \cup { "none" }
    /\ runpc' = "returned"
    /\ ctxDone' = TRUE
    /\ UNCHANGED <<envVars, fsVars, watcherVars, workers, rc, dmVars, unitVars>>

\* ------------------------------------------------------------ processFile
svcRest == <<envVars, watcherVars, ctxDone, rc, dmVars, unitVars>>

\* PollStabilizer.WaitForStable: one round of the loop
StabilizeSample(i) ==
    /\ Alive
    /\ workers[i].pc = "stabilize"
    /\ LET w == workers[i]
           f == watchDir[w.path]
       IN  workers' =
             IF ctxDone \/ f = NoFile
             THEN [workers EXCEPT ![i] = Finish(w, "failed_stabilize")]
             ELSE IF f = w.lastSize /\ w.stableCount + 1 < cfg.StabilizationChecks
             THEN [workers EXCEPT ![i].stableCount = w.stableCount + 1]
             ELSE IF f = w.lastSize
             THEN [workers EXCEPT ![i].pc = "transcribe",
                                  ![i].stableCount = 0, ![i].lastSize = -1]
             ELSE [workers EXCEPT ![i].stableCount = 0, ![i].lastSize = f]
    /\ UNCHANGED <<svcRest, runpc, fsVars>>

\* answers of WhisperASRClient.Transcribe to one call: the file cannot be
\* opened, the request is cut by the cancelled context, or the endpoint answers
Outcomes(i) ==
    IF ~Present(watchDir, workers[i].path) THEN { "eopen" }
    ELSE IF ctxDone THEN { "ectx" }
    ELSE endpoint

\* processFile: for attempt := 1; attempt <= s.config.RetryCount; attempt++
InRetryLoop(c, attempt) == attempt <= c.RetryCount

\* processFile: if attempt < s.config.RetryCount { ... time.Sleep(...) }
SleepsAfter(c, attempt, o) == attempt < c.RetryCount

\* processFile: one round of the retry loop: the call and, after an error
\* that is not the last, time.Sleep(time.Duration(attempt) * time.Second) and
\* attempt++ (the sleep reads and writes nothing and nothing interrupts it)
TranscribeCall(i, o) ==
    /\ Alive
    /\ workers[i].pc = "transcribe"
    /\ InRetryLoop(cfg, workers[i].attempt)
    /\ o \in Outcomes(i)
    /\ LET w == [workers[i] EXCEPT !.answers = Append(@, o)]
       IN  workers' =
             IF o = "ok"
             THEN [workers EXCEPT ![i] = [w EXCEPT !.pc = "write", !.attempt = 0]]
             ELSE IF SleepsAfter(cfg, w.attempt, o)
             THEN [workers EXCEPT ![i] = [w EXCEPT !.attempt = w.attempt + 1]]
             ELSE [workers EXCEPT ![i] = Finish(w, "failed_transcribe")]
    /\ UNCHANGED <<svcRest, runpc, fsVars>>

\* processFile: the loop made no round (RetryCount < 1), transcribeErr is nil
\* and result is nil: result.Language panics and the process dies
TranscribeNone(i) ==
    /\ Alive
    /\ workers[i].pc = "transcribe"
    /\ ~InRetryLoop(cfg, workers[i].attempt)
    /\ runpc' = "crashed"
    /\ UNCHANGED <<svcRest, workers, fsVars>>

\* SimpleWriter.Write: outputName := <nameWithoutExt>-<timestamp>.md
OutputPath(n, ts) == [stem |-> n.stem, ts |-> ts]

WriteNoReturn(i, okio) ==
    /\ Alive
    /\ workers[i].pc = "write"
    /\ LET w == workers[i]
           p == OutputPath(w.path, w.ts)
       IN  IF ctxDone \/ ~okio
           THEN /\ workers' = [workers EXCEPT ![i].pc = "archive"]
                /\ outDir' = outDir
           ELSE /\ workers' = [workers EXCEPT ![i].pc = "archive",
                                              ![i].outPath = p,
                                              ![i].wrote = TRUE]
                /\ outDir' = [outDir EXCEPT ![p] = i]
    /\ UNCHANGED <<svcRest, runpc, watchDir, archive>>

\* SimpleWriter.Write; okio = MkdirAll and WriteFile succeed
Write(i, okio) ==
    /\ Alive
    /\ workers[i].pc = "write"
    /\ LET w == workers[i]
           p == OutputPath(w.path, w.ts)
       IN  IF ctxDone \/ ~okio
           THEN /\ workers' = [workers EXCEPT ![i] = Finish(w, "failed_write")]
                /\ outDir' = outDir
           ELSE /\ workers' = [workers EXCEPT ![i].pc = "archive",
                                              ![i].outPath = p,
                                              ![i].wrote = TRUE]
                /\ outDir' = [outDir EXCEPT ![p] = i]
    /\ UNCHANGED <<svcRest, runpc, watchDir, archive>>

\* SimpleArchiver.Archive: destPath, with the timestamp on a collision
ArchiveDest(arch, n, now) ==
    LET plain == [stem |-> n.stem, ext |-> n.ext, suffix |-> -1]
    IN  IF plain \in arch
        THEN [stem |-> n.stem, ext |-> n.ext, suffix |-> now]
        ELSE plain

\* SimpleArchiver.Archive up to os.Rename; on a rename error copyAndDelete
\* reads the source and writes the destination.
\* okio = MkdirAll and WriteFile succeed, xdev = the rename fails with EXDEV
Archive(i, okio, xdev) ==
    /\ Alive
    /\ workers[i].pc = "archive"
    /\ LET w == workers[i]
           d == ArchiveDest(archive, w.path, clock)
       IN  IF ctxDone \/ ~okio \/ ~Present(watchDir, w.path)
           THEN /\ workers' = [workers EXCEPT ![i] = Finish(w, "failed_archive")]
                /\ UNCHANGED <<watchDir, archive>>
           ELSE IF ~xdev
           THEN /\ workers' = [workers EXCEPT ![i] = Finish(w, "done")]
                /\ watchDir' = [watchDir EXCEPT ![w.path] = NoFile]
                /\ archive' = archive \cup { d }
           ELSE /\ workers' = [workers EXCEPT ![i].pc = "remove"]
                /\ archive' = archive \cup { d }
                /\ UNCHANGED watchDir
    /\ UNCHANGED <<svcRest, runpc, outDir>>

\* copyAndDelete: os.Remove(src); ok = the removal succeeds
ArchiveRemove(i, ok) ==
    /\ Alive
    /\ workers[i].pc = "remove"
    /\ LET w == workers[i]
       IN  IF ok /\ Present(watchDir, w.path)
           THEN /\ workers' = [workers EXCEPT ![i] = Finish(w, "done")]
                /\ watchDir' = [watchDir EXCEPT ![w.path] = NoFile]
           ELSE /\ workers' = [workers EXCEPT ![i] = Finish(w, "failed_archive")]
                /\ UNCHANGED watchDir
    /\ UNCHANGED <<svcRest, runpc, outDir, archive>>

\* ------------------------------------------------------------ RetryClient
\* The errors the wrapped client returns, by what isRetryable looks at:
\* is = the sentinel errors.Is finds, net = errors.As finds a net.Error or a
\* *net.OpError, status = the number Sscanf reads after "API error: status "
\* at the start of the message (0: none), text = the message contains "connection refused",
\* "connection reset", "no such host" or "send request:"
Err(is, net, status, text) ==
    [ is |-> is, net |-> net, status |-> status, text |-> text ]

Errs ==
    { Err("canceled", TRUE, 0, TRUE),      \* send request: ... context canceled
      Err("deadline", TRUE, 0, TRUE),      \* ... context deadline exceeded
      Err("none", TRUE, 0, TRUE),          \* send request: dial tcp ...
      Err("none", FALSE, 0, TRUE),         \* connection reset, untyped
      Err("none", FALSE, 400, FALSE),
      Err("none", FALSE, 499, TRUE),       \* the body quotes "connection refused"
      Err("none", FALSE, 500, FALSE),
      Err("none", FALSE, 599, FALSE),
      Err("none", FALSE, 302, FALSE),
      Err("none", FALSE, 0, FALSE) }       \* open audio file, decode response

isRetryableNetFirst(err) ==
    IF err.net THEN TRUE
    ELSE IF err.is \in { "canceled", "deadline" } THEN FALSE
    ELSE IF err.status >= 400 /\ err.status < 500 THEN FALSE
    ELSE IF err.status >= 500 /\ err.status < 600 THEN TRUE
    ELSE err.text

isRetryable(err) ==
    IF err.is \in { "canceled", "deadline" } THEN FALSE
    ELSE IF err.net THEN TRUE
    ELSE IF err.status >= 400 /\ err.status < 500 THEN FALSE
    ELSE IF err.status >= 500 /\ err.status < 600 THEN TRUE
    ELSE err.text

RECURSIVE Pow2(_)
Pow2(k) == IF k = 0 THEN 1 ELSE 2 * Pow2(k - 1)

\* delay := c.baseDelay * (1 << (attempt - 1)), in seconds
Delay(attempt) == DefaultBaseDelay * Pow2(attempt - 1)

\* a caller calls Transcribe on a RetryClient built WithRetryCount(m)
InitRetry ==
    /\ InitService({ 1 }, 0, { "ok" })
    /\ rc \in { [RetryIdle EXCEPT !.pc = "top", !.maxRetry = m] :
                  m \in -1 .. MaxRetryOpt }
    /\ UnitsIdle("none")

svcAll == <<envVars, fsVars, watcherVars, runVars, workers, dmVars, unitVars>>

\* the caller's context is cancelled, or its deadline passes
RetryCancel ==
    /\ rc.pc \in { "top", "wait", "call" }
    /\ ~rc.ctxDone
    /\ rc' = [rc EXCEPT !.ctxDone = TRUE]
    /\ UNCHANGED svcAll

\* Transcribe: for attempt := 0; attempt <= c.maxRetry; attempt++, and
\* if attempt > 0 the delay is computed and logged
RetryTop ==
    /\ rc.pc = "top"
    /\ rc' = IF rc.attempt > rc.maxRetry
             THEN [rc EXCEPT !.pc = "returned", !.ret = "exhausted"]
             ELSE IF rc.attempt > 0
             THEN [rc EXCEPT !.pc = "wait", !.remaining = Delay(rc.attempt)]
             ELSE [rc EXCEPT !.pc = "call"]
    /\ UNCHANGED svcAll

RetryWaitSleep ==
    /\ rc.pc = "wait"
    /\ rc' = IF rc.remaining > 0
             THEN [rc EXCEPT !.remaining = rc.remaining - 1]
             ELSE [rc EXCEPT !.pc = "call"]
    /\ UNCHANGED svcAll

\* Transcribe: select { case <-ctx.Done(): return nil, ctx.Err()
\*                      case <-time.After(delay): }
\* a second of the delay passes, the timer fires, or the context wakes the call
RetryWait ==
    /\ rc.pc = "wait"
    /\ rc' = IF rc.ctxDone
             THEN [rc EXCEPT !.pc = "returned", !.ret = "ctxerr"]
             ELSE IF rc.remaining > 0
             THEN [rc EXCEPT !.remaining = rc.remaining - 1]
             ELSE [rc EXCEPT !.pc = "call"]
    /\ UNCHANGED svcAll

\* Transcribe: result, err := c.client.Transcribe(...) and what follows
RetryCall(ok, e) ==
    /\ rc.pc = "call"
    /\ rc' = IF ok
             THEN [rc EXCEPT !.pc = "returned", !.ret = "ok"]
             ELSE IF ~isRetryable(e)
             THEN [rc EXCEPT !.pc = "returned", !.ret = "err",
                             !.errs = Append(@, e)]
             ELSE [rc EXCEPT !.pc = "top", !.errs = Append(@, e),
                             !.attempt = rc.attempt + 1, !.remaining = 0]
    /\ UNCHANGED svcAll

NextRetry ==
    \/ RetryCancel
    \/ RetryTop
    \/ RetryWait
    \/ \E e \in Errs : RetryCall(FALSE, e)
    \/ RetryCall(TRUE, Err("none", FALSE, 0, FALSE))

\* ------------------------------------------------------------------- Spec
\* ----------------------------------------------------------------- daemon
\* the pipeline, untouched by the lifecycle commands
notDaemon == <<envVars, fsVars, watcherVars, runVars, workers, rc, unitVars>>

\* syscall.Kill(pid, 0) finds the process
ProcAlive(ps, p) == ps[p] \notin { "none", "exited" }

\* pidfile.IsRunning: (running, pid)
IsRunning(file, ps) ==
    IF file = NoPid THEN [running |-> FALSE, pid |-> NoPid]
    ELSE [running |-> ProcAlive(ps, file), pid |-> file]

\* what a command learns from IsRunning
Found(r) ==
    IF r.running THEN "running" ELSE IF r.pid > 0 THEN "stale" ELSE "absent"

\* SIGTERM reaches process p: Run's signal.Notify channel takes it; before Run
\* has started the default action ends the process
Sigterm(ps, p) ==
    IF ps[p] \in { "starting", "loading" } THEN [ps EXCEPT ![p] = "exited"]
    ELSE IF ps[p] = "running" THEN [ps EXCEPT ![p] = "stopping"]
    ELSE ps

\* SIGKILL reaches process p
Sigkill(ps, p) == [ps EXCEPT ![p] = "exited"]

\* a command returns
Return(c, ret, msg) == [c EXCEPT !.pc = "done", !.ret = ret, !.msg = msg]

\* the user runs transcribe start --daemon, stop or status
Invoke(k, kind) ==
    /\ cmds[k].pc = "none"
    /\ k > 1 => cmds[k - 1].pc # "none"
    /\ cmds' = [cmds EXCEPT ![k] = [NoCmd EXCEPT !.kind = kind, !.pc = "check"]]
    /\ UNCHANGED <<notDaemon, pidFile, procs>>

\* start --daemon-child: pidfile.Write(os.Getpid())
ChildWritePid(p) ==
    /\ procs[p] = "starting"
    /\ procs' = [procs EXCEPT ![p] = "loading"]
    /\ pidFile' = p
    /\ UNCHANGED <<notDaemon, cmds>>

\* start --daemon-child: transcribe.Load and NewService; on an error the
\* command returns it, the PID file stays
ChildLoad(p, ok) ==
    /\ procs[p] = "loading"
    /\ procs' = [procs EXCEPT ![p] = IF ok THEN "running" ELSE "exited"]
    /\ UNCHANGED <<notDaemon, pidFile, cmds>>

\* start --daemon-child: svc.Run returns, after a signal or because the
\* watcher's channel closed
ChildRunReturn(p) ==
    /\ procs[p] \in { "running", "stopping" }
    /\ procs' = [procs EXCEPT ![p] = "stopped"]
    /\ UNCHANGED <<notDaemon, pidFile, cmds>>

\* a worker goroutine panics inside svc.Run: the process dies at once
ChildPanic(p) ==
    /\ procs[p] \in { "running", "stopping" }
    /\ procs' = [procs EXCEPT ![p] = "exited"]
    /\ UNCHANGED <<notDaemon, pidFile, cmds>>

\* start --daemon-child: pidfile.Remove() after Run
ChildRemovePid(p) ==
    /\ procs[p] = "stopped"
    /\ procs' = [procs EXCEPT ![p] = "exiting"]
    /\ pidFile' = NoPid
    /\ UNCHANGED <<notDaemon, cmds>>

\* start --daemon-child: return err, and the process exits
ChildExit(p) ==
    /\ procs[p] = "exiting"
    /\ procs' = [procs EXCEPT ![p] = "exited"]
    /\ UNCHANGED <<notDaemon, pidFile, cmds>>

StartCheckAnyway(k) ==
    /\ cmds[k].kind = "start" /\ cmds[k].pc = "check"
    /\ LET r == IsRunning(pidFile, procs)
           c == [cmds[k] EXCEPT !.found = Found(r), !.pid = r.pid]
       IN  cmds' = [cmds EXCEPT ![k] = [c EXCEPT !.pc = "clean"]]
    /\ UNCHANGED <<notDaemon, pidFile, procs>>

\* runDaemon: pidfile.IsRunning(); if running, "already running"
StartCheck(k) ==
    /\ cmds[k].kind = "start" /\ cmds[k].pc = "check"
    /\ LET r == IsRunning(pidFile, procs)
           c == [cmds[k] EXCEPT !.found = Found(r), !.pid = r.pid]
       IN  cmds' = [cmds EXCEPT ![k] = IF r.running
                                       THEN Return(c, "err", "already running")
                                       ELSE [c EXCEPT !.pc = "clean"]]
    /\ UNCHANGED <<notDaemon, pidFile, procs>>

\* runDaemon: pidfile.CleanStale() up to its IsRunning and os.Stat
StartClean(k) ==
    /\ cmds[k].kind = "start" /\ cmds[k].pc = "clean"
    /\ LET r == IsRunning(pidFile, procs)
       IN  cmds' = [cmds EXCEPT ![k].pc = IF ~r.running /\ pidFile # NoPid
                                          THEN "clean_rm" ELSE "spawn"]
    /\ UNCHANGED <<notDaemon, pidFile, procs>>

\* CleanStale: Remove()
StartCleanRemove(k) ==
    /\ cmds[k].kind = "start" /\ cmds[k].pc = "clean_rm"
    /\ pidFile' = NoPid
    /\ cmds' = [cmds EXCEPT ![k].pc = "spawn", ![k].touched = TRUE]
    /\ UNCHANGED <<notDaemon, procs>>

\* runDaemon: FindVaultRoot, the log file, childCmd.Start(); ok = all succeed
StartSpawn(k, ok) ==
    /\ cmds[k].kind = "start" /\ cmds[k].pc = "spawn"
    /\ IF ok
       THEN LET p == CHOOSE q \in Pids :
                        procs[q] = "none" /\ \A o \in Pids : o < q => procs[o] # "none"
            IN  /\ procs' = [procs EXCEPT ![p] = "starting"]
                /\ cmds' = [cmds EXCEPT ![k].pc = "write", ![k].child = p]
       ELSE /\ cmds' = [cmds EXCEPT ![k] = Return(cmds[k], "err", "error")]
            /\ UNCHANGED procs
    /\ UNCHANGED <<notDaemon, pidFile>>

\* runDaemon: pidfile.Write(childPID); on an error the child is killed
StartWritePid(k, okio) ==
    /\ cmds[k].kind = "start" /\ cmds[k].pc = "write"
    /\ IF okio
       THEN /\ pidFile' = cmds[k].child
            /\ cmds' = [cmds EXCEPT ![k] = Return([cmds[k] EXCEPT !.touched = TRUE],
                                                  "ok", "started")]
            /\ UNCHANGED procs
       ELSE /\ procs' = Sigkill(procs, cmds[k].child)
            /\ cmds' = [cmds EXCEPT ![k] = Return(cmds[k], "err", "error")]
            /\ UNCHANGED pidFile
    /\ UNCHANGED notDaemon

StopCheckStrict(k) ==
    /\ cmds[k].kind = "stop" /\ cmds[k].pc = "check"
    /\ LET r == IsRunning(pidFile, procs)
           c == [cmds[k] EXCEPT !.found = Found(r), !.pid = r.pid]
       IN  cmds' = [cmds EXCEPT ![k] =
                      IF r.running THEN [c EXCEPT !.pc = "term"]
                      ELSE Return(c, "err", "not running")]
    /\ UNCHANGED <<notDaemon, pidFile, procs>>

\* stop: pidfile.IsRunning(); not running and no PID: "not running", nil
StopCheck(k) ==
    /\ cmds[k].kind = "stop" /\ cmds[k].pc = "check"
    /\ LET r == IsRunning(pidFile, procs)
           c == [cmds[k] EXCEPT !.found = Found(r), !.pid = r.pid]
       IN  cmds' = [cmds EXCEPT ![k] =
                      IF r.running THEN [c EXCEPT !.pc = "term"]
                      ELSE IF r.pid > 0 THEN [c EXCEPT !.pc = "stale_rm"]
                      ELSE Return(c, "ok", "not running")]
    /\ UNCHANGED <<notDaemon, pidFile, procs>>

\* stop: the PID file is stale: pidfile.Remove(), "not running (cleaned stale
\* PID file)", nil
StopStaleRemove(k) ==
    /\ cmds[k].kind = "stop" /\ cmds[k].pc = "stale_rm"
    /\ pidFile' = NoPid
    /\ cmds' = [cmds EXCEPT ![k] = Return([cmds[k] EXCEPT !.touched = TRUE],
                                          "ok", "not running")]
    /\ UNCHANGED <<notDaemon, procs>>

\* stop: process.Signal(syscall.SIGTERM)
StopTerm(k) ==
    /\ cmds[k].kind = "stop" /\ cmds[k].pc = "term"
    /\ IF ProcAlive(procs, cmds[k].pid)
       THEN /\ procs' = Sigterm(procs, cmds[k].pid)
            /\ cmds' = [cmds EXCEPT ![k].pc = "poll", ![k].sigs = @ + 1]
       ELSE /\ cmds' = [cmds EXCEPT ![k] = Return(cmds[k], "err", "error")]
            /\ UNCHANGED procs
    /\ UNCHANGED <<notDaemon, pidFile>>

\* stop: a round of the wait loop finds running false
StopPoll(k) ==
    /\ cmds[k].kind = "stop" /\ cmds[k].pc = "poll"
    /\ ~IsRunning(pidFile, procs).running
    /\ cmds' = [cmds EXCEPT ![k].pc = "final_rm"]
    /\ UNCHANGED <<notDaemon, pidFile, procs>>

\* stop: the 50th round still finds running true
StopTimeout(k) ==
    /\ cmds[k].kind = "stop" /\ cmds[k].pc = "poll"
    /\ IsRunning(pidFile, procs).running
    /\ cmds' = [cmds EXCEPT ![k].pc = "kill"]
    /\ UNCHANGED <<notDaemon, pidFile, procs>>

\* stop: process.Signal(syscall.SIGKILL), then 500 ms
StopKill(k) ==
    /\ cmds[k].kind = "stop" /\ cmds[k].pc = "kill"
    /\ IF ProcAlive(procs, cmds[k].pid)
       THEN /\ procs' = Sigkill(procs, cmds[k].pid)
            /\ cmds' = [cmds EXCEPT ![k].pc = "final_rm", ![k].sigs = @ + 1]
       ELSE /\ cmds' = [cmds EXCEPT ![k] = Return(cmds[k], "err", "error")]
            /\ UNCHANGED procs
    /\ UNCHANGED <<notDaemon, pidFile>>

\* stop: pidfile.Remove(), "Transcription service stopped", nil
StopFinalRemove(k) ==
    /\ cmds[k].kind = "stop" /\ cmds[k].pc = "final_rm"
    /\ pidFile' = NoPid
    /\ cmds' = [cmds EXCEPT ![k] = Return([cmds[k] EXCEPT !.touched = TRUE],
                                          "ok", "stopped")]
    /\ UNCHANGED <<notDaemon, procs>>

\* status: pidfile.IsRunning(), "Status: not running" or "Status: running"
StatusCheck(k) ==
    /\ cmds[k].kind = "status" /\ cmds[k].pc = "check"
    /\ LET r == IsRunning(pidFile, procs)
           c == [cmds[k] EXCEPT !.found = Found(r), !.pid = r.pid]
       IN  cmds' = [cmds EXCEPT ![k] =
                      Return(c, "ok", IF r.running THEN "running" ELSE "not running")]
    /\ UNCHANGED <<notDaemon, pidFile, procs>>

NextDaemon ==
    \/ \E k \in CmdIds, kind \in { "start", "stop", "status" } : Invoke(k, kind)
    \/ \E p \in Pids : ChildWritePid(p)
    \/ \E p \in Pids, ok \in BOOLEAN : ChildLoad(p, ok)
    \/ \E p \in Pids : ChildRunReturn(p)
    \/ \E p \in Pids : ChildPanic(p)
    \/ \E p \in Pids : ChildRemovePid(p)
    \/ \E p \in Pids : ChildExit(p)
    \/ \E k \in CmdIds : StartCheck(k)
    \/ \E k \in CmdIds : StartClean(k)
    \/ \E k \in CmdIds : StartCleanRemove(k)
    \/ \E k \in CmdIds, ok \in BOOLEAN : StartSpawn(k, ok)
    \/ \E k \in CmdIds, okio \in BOOLEAN : StartWritePid(k, okio)
    \/ \E k \in CmdIds : StopCheck(k)
    \/ \E k \in CmdIds : StopStaleRemove(k)
    \/ \E k \in CmdIds : StopTerm(k)
    \/ \E k \in CmdIds : StopPoll(k)
    \/ \E k \in CmdIds : StopTimeout(k)
    \/ \E k \in CmdIds : StopKill(k)
    \/ \E k \in CmdIds : StopFinalRemove(k)
    \/ \E k \in CmdIds : StatusCheck(k)

\* no daemon runs and no PID file exists; the user invokes commands
InitDaemon == InitService({ 1 }, 0, { "ok" }) /\ rc = RetryIdle /\ UnitsIdle("none")

Next ==
    \/ \E n \in Names, sz \in Sizes(cfg) : UserWrite(n, sz)
    \/ Tick
    \/ ParentCancel
    \/ WatcherRead
    \/ WatcherEmit
    \/ WatcherExit
    \/ WatcherReadFail
    \/ RunDispatch
    \/ RunCtxDone
    \/ RunSignal
    \/ RunChanClosed
    \/ RunReturn
    \/ \E i \in EventIds : StabilizeSample(i)
    \/ \E i \in EventIds, o \in { "ok", "e4xx", "e5xx", "ectx", "eopen" } :
          TranscribeCall(i, o)
    \/ \E i \in EventIds : TranscribeNone(i)
    \/ \E i \in EventIds, okio \in BOOLEAN : Write(i, okio)
    \/ \E i \in EventIds, okio \in BOOLEAN, xdev \in BOOLEAN : Archive(i, okio, xdev)
    \/ \E i \in EventIds, ok \in BOOLEAN : ArchiveRemove(i, ok)

Spec == Init /\ [][Next]_vars

SpecOneFile == InitOneFile /\ [][Next]_vars

SpecRetry == InitRetry /\ [][NextRetry]_vars

SpecDaemon == InitDaemon /\ [][NextDaemon]_vars

\* The service starts while a.m4a, left by the previous process, is in the
\* watch directory. The goroutines of the watcher and of Run are scheduled:
\* a read that has events, a parsed event and a received event are not put off
\* for ever.
InitRestart ==
    /\ InitServiceWith({ -1, 1 }, 1, { "ok", "e5xx" }, { Leftover })
    /\ rc = RetryIdle
    /\ UnitsIdle("none")

SpecRestart ==
    /\ InitRestart
    /\ [][Next]_vars
    /\ WF_vars(WatcherRead)
    /\ WF_vars(WatcherEmit)
    /\ WF_vars(RunDispatch)

\* One file arrives, as in SpecOneFile; the goroutine of Run and the workers
\* are scheduled: a step of Run or of a worker that can be taken is not put
\* off for ever. The user, the clock, the caller and the signal are not
\* obliged to act.
SpecShutdown ==
    /\ InitOneFile
    /\ [][Next]_vars
    /\ WF_vars(RunDispatch)
    /\ WF_vars(RunCtxDone)
    /\ WF_vars(RunChanClosed)
    /\ WF_vars(RunReturn)
    /\ WF_vars(\E i \in EventIds : StabilizeSample(i))
    /\ WF_vars(\E i \in EventIds, o \in { "ok", "e4xx", "e5xx", "ectx", "eopen" } :
                  TranscribeCall(i, o))
    /\ WF_vars(\E i \in EventIds : TranscribeNone(i))
    /\ WF_vars(\E i \in EventIds, okio \in BOOLEAN : Write(i, okio))
    /\ WF_vars(\E i \in EventIds, okio \in BOOLEAN, xdev \in BOOLEAN : Archive(i, okio, xdev))
    /\ WF_vars(\E i \in EventIds, ok \in BOOLEAN : ArchiveRemove(i, ok))

\* ---------------------------------------------------------------- pidfile
\* the pipeline and the daemon at rest
PipelineIdle == InitService({ 1 }, 0, { "ok" }) /\ rc = RetryIdle

\* the characters a PID file body is made of
Chars == { "-", "+", "0", "1", "x", "\n" }
Digits == { "0", "1", "2", "3", "4", "5", "6", "7", "8", "9" }
DigitVal(c) ==
    CASE c = "0" -> 0 [] c = "1" -> 1 [] c = "2" -> 2 [] c = "3" -> 3
      [] c = "4" -> 4 [] c = "5" -> 5 [] c = "6" -> 6 [] c = "7" -> 7
      [] c = "8" -> 8 [] c = "9" -> 9

Bodies == UNION { [1 .. n -> Chars] : n \in 0 .. MaxBody }

\* strings.TrimSpace
RECURSIVE TrimLeft(_)
TrimLeft(s) == IF s # <<>> /\ Head(s) = "\n" THEN TrimLeft(Tail(s)) ELSE s
RECURSIVE TrimRight(_)
TrimRight(s) ==
    IF s # <<>> /\ s[Len(s)] = "\n" THEN TrimRight(SubSeq(s, 1, Len(s) - 1)) ELSE s
TrimSpace(s) == TrimRight(TrimLeft(s))

\* value of a run of decimal digits
RECURSIVE DigitsVal(_)
DigitsVal(d) ==
    IF d = <<>> THEN 0
    ELSE 10 * DigitsVal(SubSeq(d, 1, Len(d) - 1)) + DigitVal(d[Len(d)])

\* strconv.Atoi: an optional sign, then one or more decimal digits
Atoi(s) ==
    LET signed == s # <<>> /\ Head(s) \in { "-", "+" }
        d == IF signed THEN Tail(s) ELSE s
    IN  IF d = <<>> \/ \E i \in 1 .. Len(d) : d[i] \notin Digits
        THEN [val |-> 0, ok |-> FALSE]
        ELSE [val |-> IF signed /\ Head(s) = "-" THEN 0 - DigitsVal(d) ELSE DigitsVal(d),
              ok |-> TRUE]

ReadAllowZero(exists, body) ==
    IF ~exists THEN [pid |-> 0, err |-> "ErrNoPIDFile"]
    ELSE LET a == Atoi(TrimSpace(body))
         IN  IF ~a.ok \/ a.val < 0 THEN [pid |-> 0, err |-> "ErrInvalidPID"]
             ELSE [pid |-> a.val, err |-> "nil"]

\* pidfile.Read
Read(exists, body) ==
    IF ~exists THEN [pid |-> 0, err |-> "ErrNoPIDFile"]
    ELSE LET a == Atoi(TrimSpace(body))
         IN  IF ~a.ok \/ a.val <= 0 THEN [pid |-> 0, err |-> "ErrInvalidPID"]
             ELSE [pid |-> a.val, err |-> "nil"]

\* pidfile.IsRunning over the file's bytes; probe is what syscall.Kill(pid, 0)
\* answers: "nil", "ESRCH", "EPERM" or another error
IsRunningRead(exists, body, probe) ==
    LET r == Read(exists, body)
    IN  IF r.err = "ErrNoPIDFile" THEN [running |-> FALSE, pid |-> 0, err |-> "nil"]
        ELSE IF r.err # "nil" THEN [running |-> FALSE, pid |-> 0, err |-> r.err]
        ELSE IF probe = "ESRCH" THEN [running |-> FALSE, pid |-> r.pid, err |-> "nil"]
        ELSE IF probe = "EPERM" THEN [running |-> TRUE, pid |-> r.pid, err |-> "nil"]
        ELSE IF probe # "nil" THEN [running |-> FALSE, pid |-> r.pid, err |-> "check process"]
        ELSE [running |-> TRUE, pid |-> r.pid, err |-> "nil"]

\* everything but pf
notPf == <<envVars, fsVars, watcherVars, runVars, workers, rc, dmVars, stab, wch, lg, ar, wr, cf, vt, ow, sv, st>>

\* a PID file with any body, or none; signal 0 answers nil, ESRCH or EPERM
InitPidFile ==
    /\ PipelineIdle
    /\ UnitsIdle("pf")
    /\ pf \in { [PfIdle EXCEPT !.exists = e, !.body = b, !.probe = k] :
                  e \in BOOLEAN, b \in Bodies, k \in { "nil", "ESRCH", "EPERM" } }
    /\ pf.exists \/ pf.body = <<>>

\* a command calls pidfile.IsRunning()
PidIsRunning ==
    /\ ~pf.done
    /\ pf' = [pf EXCEPT !.done = TRUE,
                        !.out = IsRunningRead(pf.exists, pf.body, pf.probe)]
    /\ UNCHANGED notPf

NextPidFile == PidIsRunning

SpecPidFile == InitPidFile /\ [][NextPidFile]_vars

\* ------------------------------------------------------------- stabilizer
\* everything but stab
notStab == <<envVars, fsVars, watcherVars, runVars, workers, rc, dmVars, pf, wch, lg, ar, wr, cf, vt, ow, sv, st>>

\* WaitForStable is called with any Checks, with or without Timeout, on a
\* caller's context with or without a deadline
InitStab ==
    /\ PipelineIdle
    /\ UnitsIdle("stab")
    /\ stab \in { [StabIdle EXCEPT !.checks = n, !.timeout = t, !.callerDeadline = d,
                                   !.pc = "start"] :
                    n \in -1 .. MaxChecks, t \in 0 .. 1, d \in BOOLEAN }

\* the first error a context takes stays
Fire(c, e) == IF c = "nil" THEN e ELSE c

StabBeginAlways ==
    /\ stab.pc = "start"
    /\ stab' = [stab EXCEPT !.pc = "select", !.using = stab.timeout > 0]
    /\ UNCHANGED notStab

\* WaitForStable, up to the loop: context.WithTimeout when Timeout is set and
\* the caller's context has no deadline
StabBegin ==
    /\ stab.pc = "start"
    /\ stab' = [stab EXCEPT !.pc = "select",
                            !.using = stab.timeout > 0 /\ ~stab.callerDeadline]
    /\ UNCHANGED notStab

\* the caller cancels its context
StabCallerCancel ==
    /\ stab.pc \in { "start", "select" }
    /\ stab.callerErr = "nil"
    /\ stab' = [stab EXCEPT !.callerErr = "Canceled",
                            !.ctxErr = Fire(@, "Canceled"),
                            !.first = IF stab.ctxErr = "nil" THEN "caller" ELSE @]
    /\ UNCHANGED notStab

\* the deadline of the caller's context passes
StabCallerDeadline ==
    /\ stab.pc \in { "start", "select" }
    /\ stab.callerDeadline
    /\ stab.callerErr = "nil"
    /\ stab' = [stab EXCEPT !.callerErr = "DeadlineExceeded",
                            !.ctxErr = Fire(@, "DeadlineExceeded"),
                            !.first = IF stab.ctxErr = "nil" THEN "caller" ELSE @]
    /\ UNCHANGED notStab

\* the timer of context.WithTimeout(ctx, s.Timeout) fires
StabInternalTimer ==
    /\ stab.pc = "select"
    /\ stab.using
    /\ stab.ctxErr = "nil"
    /\ stab' = [stab EXCEPT !.ctxErr = "DeadlineExceeded", !.first = "timer"]
    /\ UNCHANGED notStab

\* for stableCount < s.Checks fails: return nil
StabReturnStable ==
    /\ stab.pc = "select"
    /\ stab.stableCount >= stab.checks
    /\ stab' = [stab EXCEPT !.pc = "returned", !.via = "stable", !.ret = "nil"]
    /\ UNCHANGED notStab

\* case <-ctx.Done()
StabCtxDone ==
    /\ stab.pc = "select"
    /\ stab.stableCount < stab.checks
    /\ stab.ctxErr # "nil"
    /\ stab' = [stab EXCEPT !.pc = "returned", !.via = "ctx",
                            !.ret = IF stab.using /\ stab.ctxErr = "DeadlineExceeded"
                                    THEN "ErrStabilizationTimeout" ELSE stab.ctxErr]
    /\ UNCHANGED notStab

StabSampleFromZero(ok, size) ==
    /\ stab.pc = "select"
    /\ stab.stableCount < stab.checks
    /\ stab.ctxErr = "nil"
    /\ Len(stab.samples) < MaxSamples
    /\ IF ~ok
       THEN stab' = [stab EXCEPT !.pc = "returned", !.via = "stat", !.ret = "ENOENT"]
       ELSE LET last == IF stab.samples = <<>> THEN 0 ELSE stab.lastSize
            IN  stab' = [stab EXCEPT
                   !.samples = Append(@, size),
                   !.stableCount = IF size = last THEN @ + 1 ELSE 0,
                   !.lastSize = size]
    /\ UNCHANGED notStab

\* case <-time.After(s.Interval), then os.Stat and the comparison with lastSize
StabSample(ok, size) ==
    /\ stab.pc = "select"
    /\ stab.stableCount < stab.checks
    /\ stab.ctxErr = "nil"
    /\ Len(stab.samples) < MaxSamples
    /\ IF ~ok
       THEN stab' = [stab EXCEPT !.pc = "returned", !.via = "stat", !.ret = "ENOENT"]
       ELSE stab' = [stab EXCEPT
                       !.samples = Append(@, size),
                       !.stableCount = IF size = stab.lastSize THEN @ + 1 ELSE 0,
                       !.lastSize = size]
    /\ UNCHANGED notStab

NextStab ==
    \/ StabBegin
    \/ StabCallerCancel
    \/ StabCallerDeadline
    \/ StabInternalTimer
    \/ StabReturnStable
    \/ StabCtxDone
    \/ \E ok \in BOOLEAN, size \in 0 .. MaxSampleSize : StabSample(ok, size)

SpecStab == InitStab /\ [][NextStab]_vars

\* ------------------------------------------------- watcher on its own
\* everything but wch
notWch == <<envVars, fsVars, watcherVars, runVars, workers, rc, dmVars, pf, stab, lg, ar, wr, cf, vt, ow, sv, st>>

\* Watch has returned: readEvents runs, the channel is empty
InitWatch ==
    /\ PipelineIdle
    /\ UnitsIdle("wch")
    /\ wch = [WchIdle EXCEPT !.pc = "select"]

\* readEvents: case <-ctx.Done(), case <-w.stopCh: return; close(events)
WchSelectExit ==
    /\ wch.pc = "select"
    /\ wch.ctxDone \/ wch.stopped
    /\ wch' = [wch EXCEPT !.pc = "exited", !.closes = @ + 1]
    /\ UNCHANGED notWch

\* readEvents: default
WchSelectDefault ==
    /\ wch.pc = "select"
    /\ ~(wch.ctxDone \/ wch.stopped)
    /\ wch' = [wch EXCEPT !.pc = "read"]
    /\ UNCHANGED notWch

\* readEvents: unix.Read gives n events (0: EAGAIN, sleep and continue), or
\* fails on the descriptor Stop() has closed: return; close(events)
WchRead(n) ==
    /\ wch.pc = "read"
    /\ wch' = IF wch.stopped THEN [wch EXCEPT !.pc = "exited", !.closes = @ + 1]
              ELSE IF n = 0 THEN [wch EXCEPT !.pc = "select"]
              ELSE [wch EXCEPT !.pc = "send", !.left = n]
    /\ UNCHANGED notWch

\* readEvents: events <- FileEvent{...}, which blocks while the channel is full
WchSend ==
    /\ wch.pc = "send"
    /\ wch.chanLen < ChanCap
    /\ wch' = [wch EXCEPT !.chanLen = @ + 1, !.left = @ - 1,
                          !.pc = IF wch.left = 1 THEN "select" ELSE "send"]
    /\ UNCHANGED notWch

\* the consumer receives one event
WchReceive ==
    /\ wch.chanLen > 0
    /\ wch' = [wch EXCEPT !.chanLen = @ - 1]
    /\ UNCHANGED notWch

\* the context passed to Watch is cancelled
WchCancel ==
    /\ ~wch.ctxDone
    /\ wch' = [wch EXCEPT !.ctxDone = TRUE]
    /\ UNCHANGED notWch

\* Stop(): if w.stopped return nil; w.stopped = true; close(w.stopCh); close fd
WchStop ==
    /\ wch.stopCalls < MaxStops
    /\ wch' = [wch EXCEPT !.stopCalls = @ + 1, !.stopped = TRUE]
    /\ UNCHANGED notWch

NextWatch ==
    \/ WchSelectExit
    \/ WchSelectDefault
    \/ \E n \in 0 .. MaxBatch : WchRead(n)
    \/ WchSend
    \/ WchReceive
    \/ WchCancel
    \/ WchStop

\* the goroutine of readEvents keeps running; nothing makes the consumer receive
SpecWatch ==
    /\ InitWatch
    /\ [][NextWatch]_vars
    /\ WF_vars(WchSelectExit)
    /\ WF_vars(WchSelectDefault)
    /\ WF_vars(\E n \in 0 .. MaxBatch : WchRead(n))
    /\ WF_vars(WchSend)

\* ----------------------------------------------------------------- logger
\* everything but lg
notLg == <<envVars, fsVars, watcherVars, runVars, workers, rc, dmVars, pf, stab, wch, ar, wr, cf, vt, ow, sv, st>>

\* the service has made its logger
InitLog == PipelineIdle /\ UnitsIdle("lg") /\ lg = LgIdle

\* processFile: fileLogger := s.logger.WithComponent("pipeline"): a new
\* FileLogger with the same file and currentDate and a mutex of its own
WithComponent ==
    /\ ~lg.shut
    /\ lg.n < MaxLoggers
    /\ lg' = [lg EXCEPT !.n = @ + 1,
                        !.file[lg.n + 1] = lg.file[0],
                        !.date[lg.n + 1] = lg.date[0]]
    /\ UNCHANGED notLg

\* midnight UTC passes
LogMidnight ==
    /\ ~lg.shut
    /\ lg.today < MaxDay
    /\ lg' = [lg EXCEPT !.today = @ + 1]
    /\ UNCHANGED notLg

\* log: l.mu.Lock(); the mutex is the logger's own and its one goroutine does
\* not hold it
LogLock(l) ==
    /\ ~lg.shut
    /\ l <= lg.n
    /\ lg.pc[l] = "idle"
    /\ lg' = [lg EXCEPT !.pc[l] = "rotate"]
    /\ UNCHANGED notLg

\* rotateIfNeeded must close l.file and open today's
NeedsRotation(l) == ~(lg.date[l] = lg.today /\ lg.file[l] # 0)

\* rotateIfNeeded
LogRotate(l) ==
    /\ lg.pc[l] = "rotate"
    /\ lg' = IF NeedsRotation(l)
             THEN [lg EXCEPT !.pc[l] = "write",
                             !.closed = @ \cup { lg.file[l] },
                             !.opened = @ + 1,
                             !.file[l] = lg.opened + 1,
                             !.date[l] = lg.today]
             ELSE [lg EXCEPT !.pc[l] = "write"]
    /\ UNCHANGED notLg

\* writeLog: l.file.WriteString, then the deferred l.mu.Unlock()
LogWrite(l) ==
    /\ lg.pc[l] = "write"
    /\ lg' = [lg EXCEPT !.pc[l] = "idle"]
    /\ UNCHANGED notLg

\* shutdown, after wg.Wait(): s.logger.Close() closes the service logger's
\* file; the workers, and with them the component loggers, have returned
LogClose ==
    /\ ~lg.shut
    /\ \A l \in Loggers : lg.pc[l] = "idle"
    /\ lg' = [lg EXCEPT !.shut = TRUE, !.closed = @ \cup { lg.file[0] }]
    /\ UNCHANGED notLg

NextLog ==
    \/ LogClose
    \/ WithComponent
    \/ LogMidnight
    \/ \E l \in Loggers : LogLock(l)
    \/ \E l \in Loggers : LogRotate(l)
    \/ \E l \in Loggers : LogWrite(l)

SpecLog == InitLog /\ [][NextLog]_vars

\* --------------------------------------------------------- FileArchiver
\* everything but ar
notAr == <<envVars, fsVars, watcherVars, runVars, workers, rc, dmVars, pf, stab, wch, lg, wr, cf, vt, ow, sv, st>>

\* Archive(ctx, sourcePath, archiveDir) is called: the source holds size
\* blocks or does not exist; archiveDir is another directory, where a file of
\* that name may exist already, or (same) the source's own directory, so that
\* destPath is sourcePath
InitArchive ==
    /\ PipelineIdle
    /\ UnitsIdle("ar")
    /\ \E n \in 0 .. MaxBlocks, same \in BOOLEAN, old \in BOOLEAN, c \in BOOLEAN :
          /\ same => ~old
          /\ ar = [ArIdle EXCEPT
                     !.pc = "ctx1", !.size = n, !.same = same, !.ctxDone = c,
                     !.src = [exists |-> n > 0, len |-> n],
                     !.dst = IF same THEN [exists |-> n > 0, len |-> n, mine |-> TRUE]
                             ELSE [exists |-> old, len |-> IF old THEN 1 ELSE 0,
                                   mine |-> FALSE]]

\* Archive returns
ArReturn(a, ret) == [a EXCEPT !.pc = "returned", !.ret = ret]

\* the caller's context is cancelled
ArCancel ==
    /\ ar.pc \notin { "idle", "returned" }
    /\ ~ar.ctxDone
    /\ ar' = [ar EXCEPT !.ctxDone = TRUE]
    /\ UNCHANGED notAr

\* Archive: if err := ctx.Err(); err != nil, before starting
ArCheckStart ==
    /\ ar.pc = "ctx1"
    /\ ar' = IF ar.ctxDone THEN ArReturn(ar, "ctx") ELSE [ar EXCEPT !.pc = "stat"]
    /\ UNCHANGED notAr

\* Archive: os.Stat(sourcePath), then os.MkdirAll(archiveDir); ok = MkdirAll
\* succeeds
ArStat(ok) ==
    /\ ar.pc = "stat"
    /\ ar' = IF ~ar.src.exists THEN ArReturn(ar, "ErrSourceNotFound")
             ELSE IF ~ok THEN ArReturn(ar, "err")
             ELSE [ar EXCEPT !.pc = "open"]
    /\ UNCHANGED notAr

\* copyFile: os.Open(src), then os.OpenFile(dst, O_CREATE|O_WRONLY|O_TRUNC);
\* ok = both succeed. O_TRUNC empties the destination file, which is the
\* source when destPath is sourcePath
ArOpen(ok) ==
    /\ ar.pc = "open"
    /\ ar' = IF ~ok THEN ArReturn(ar, "err")
             ELSE [ar EXCEPT !.pc = "copy",
                             !.dst = [exists |-> TRUE, len |-> 0, mine |-> TRUE],
                             !.src = IF ar.same THEN [exists |-> TRUE, len |-> 0] ELSE @]
    /\ UNCHANGED notAr

\* copyFile: io.Copy moves one block, or fails (ok = FALSE); at the end of the
\* source, dstFile.Sync()
ArCopy(ok) ==
    /\ ar.pc = "copy"
    /\ ar' = IF ~ok THEN ArReturn(ar, "err")
             ELSE IF ar.dst.len < ar.src.len /\ ~ar.same
             THEN [ar EXCEPT !.dst.len = @ + 1]
             ELSE [ar EXCEPT !.pc = "ctx2"]
    /\ UNCHANGED notAr

\* Archive: if err := ctx.Err(); err != nil, before deleting the original
ArCheckDelete ==
    /\ ar.pc = "ctx2"
    /\ ar' = IF ar.ctxDone THEN ArReturn(ar, "ctx") ELSE [ar EXCEPT !.pc = "remove"]
    /\ UNCHANGED notAr

\* Archive: os.Remove(sourcePath); ok = it succeeds
ArRemove(ok) ==
    /\ ar.pc = "remove"
    /\ ar' = IF ~ok THEN ArReturn(ar, "err")
             ELSE ArReturn([ar EXCEPT
                              !.src = [exists |-> FALSE, len |-> 0],
                              !.dst = IF ar.same
                                      THEN [exists |-> FALSE, len |-> 0, mine |-> FALSE]
                                      ELSE @], "nil")
    /\ UNCHANGED notAr

NextArchive ==
    \/ ArCancel
    \/ ArCheckStart
    \/ \E ok \in BOOLEAN : ArStat(ok)
    \/ \E ok \in BOOLEAN : ArOpen(ok)
    \/ \E ok \in BOOLEAN : ArCopy(ok)
    \/ ArCheckDelete
    \/ \E ok \in BOOLEAN : ArRemove(ok)

SpecArchive == InitArchive /\ [][NextArchive]_vars

\* -------------------------------------------------------- output.Writer
\* everything but wr
notWr == <<envVars, fsVars, watcherVars, runVars, workers, rc, dmVars, pf, stab, wch, lg, ar, cf, vt, ow, sv, st>>

\* the output directory holds, for one minute's base name, the first p names
\* or all names but the last q, less one of them
InitOutput ==
    /\ PipelineIdle
    /\ UnitsIdle("wr")
    /\ \E p \in (0 .. MaxPre) \cup (SuffixCap - MaxPre .. SuffixCap),
          h \in { 0, 1, 2, SuffixCap - 1, SuffixCap } :
          wr = [WrIdle EXCEPT !.dir = (1 .. p) \ { h }]

ScanShort(dir) ==
    LET free == { i \in 2 .. SuffixCap - 1 : i \notin dir }
    IN  IF free = { } THEN 0 ELSE CHOOSE i \in free : \A j \in free : i <= j

\* generateFilename: the loop for i := 2; i <= 1000; i++ returns at the first
\* i whose name os.Stat does not find; 0 = "too many files with same timestamp"
Scan(dir) ==
    LET free == { i \in 2 .. SuffixCap : i \notin dir }
    IN  IF free = { } THEN 0 ELSE CHOOSE i \in free : \A j \in free : i <= j

\* generateFilename: base.md if os.Stat says it does not exist, else the loop
generateFilename(dir) == IF 1 \notin dir THEN 1 ELSE Scan(dir)

\* Writer.Write. ctx = the context is live, okdir = MkdirAll succeeds, oktpl =
\* generateContent succeeds, okio = os.WriteFile succeeds; made = a failed
\* WriteFile has created the file
OutWrite(ctx, okdir, oktpl, okio, made) ==
    /\ wr.calls < MaxWrites
    /\ LET f == generateFilename(wr.dir)
           w == [wr EXCEPT !.calls = @ + 1, !.before = wr.dir, !.path = 0,
                           !.over = FALSE]
       IN  wr' = IF ~ctx THEN [w EXCEPT !.ret = "ctx"]
                 ELSE IF ~okdir THEN [w EXCEPT !.ret = "err"]
                 ELSE IF f = 0 THEN [w EXCEPT !.ret = "too many"]
                 ELSE IF ~oktpl THEN [w EXCEPT !.ret = "err"]
                 ELSE IF okio
                 THEN [w EXCEPT !.ret = "nil", !.path = f, !.dir = @ \cup { f },
                                !.over = f \in wr.dir]
                 ELSE [w EXCEPT !.ret = "err",
                                !.dir = IF made THEN @ \cup { f } ELSE @,
                                !.over = made /\ f \in wr.dir]
    /\ UNCHANGED notWr

NextOutput ==
    \E ctx \in BOOLEAN, okdir \in BOOLEAN, oktpl \in BOOLEAN, okio \in BOOLEAN,
       made \in BOOLEAN : OutWrite(ctx, okdir, oktpl, okio, made)

SpecOutput == InitOutput /\ [][NextOutput]_vars

\* ---------------------------------------------------------- configuration
\* everything but cf
notCf ==
    <<envVars, fsVars, watcherVars, runVars, workers, rc, dmVars, pf, stab, wch, lg, ar, wr, vt,
      ow, sv, st>>

\* the characters of a path in transcribe.json, and the paths
PathChars == { "~", "/", "a" }
Paths == UNION { [1 .. n -> PathChars] : n \in 0 .. MaxPath }

\* os.UserHomeDir()
HomeDir == <<"/", "h">>

\* DefaultArchiveDir = "~/.nota/archive/audio"
DefaultArchiveDir ==
    <<"~", "/", ".", "n", "o", "t", "a", "/", "a", "r", "c", "h", "i", "v", "e",
      "/", "a", "u", "d", "i", "o">>

\* filepath.Join(home, rest) for a rest without "." and "..": leading
\* separators of rest are dropped
RECURSIVE Join(_, _)
Join(home, rest) ==
    IF rest = <<>> THEN home
    ELSE IF Head(rest) = "/" THEN Join(home, Tail(rest))
    ELSE home \o <<"/">> \o rest

\* expandTilde; homeOk = os.UserHomeDir succeeds
expandTilde(path, homeOk) ==
    IF path = <<>> THEN path
    ELSE IF path = <<"~">> THEN (IF homeOk THEN HomeDir ELSE path)
    ELSE IF Len(path) >= 2 /\ SubSeq(path, 1, 2) = <<"~", "/">>
    THEN (IF homeOk THEN Join(HomeDir, SubSeq(path, 3, Len(path))) ELSE path)
    ELSE path

\* transcribe.json was unmarshalled: any paths, template_path null or set
InitConfig ==
    /\ PipelineIdle
    /\ UnitsIdle("cf")
    /\ cf \in { [CfIdle EXCEPT !.pc = "read", !.WatchDir = w, !.OutputDir = o,
                               !.ArchiveDir = a, !.TemplatePath = t] :
                  w \in Paths, o \in Paths, a \in Paths,
                  t \in { [set |-> FALSE, path |-> <<>>] }
                        \cup { [set |-> TRUE, path |-> p] : p \in Paths } }

\* LoadFromVault: cfg.expandPaths()
CfgLoad(homeOk) ==
    /\ cf.pc = "read"
    /\ cf' = [cf EXCEPT
                !.pc = "loaded",
                !.WatchDir = expandTilde(@, homeOk),
                !.OutputDir = expandTilde(@, homeOk),
                !.ArchiveDir = expandTilde(@, homeOk),
                !.TemplatePath = IF cf.TemplatePath.set
                                 THEN [set |-> TRUE,
                                       path |-> expandTilde(cf.TemplatePath.path, homeOk)]
                                 ELSE @]
    /\ UNCHANGED notCf

\* NewService: cfg.ApplyDefaults(), for the path fields
CfgApplyDefaults ==
    /\ cf.pc = "loaded"
    /\ cf' = [cf EXCEPT !.pc = "defaulted",
                        !.ArchiveDir = IF @ = <<>> THEN DefaultArchiveDir ELSE @]
    /\ UNCHANGED notCf

\* NewService: cfg.Validate()
CfgValidate ==
    /\ cf.pc = "defaulted"
    /\ cf' = [cf EXCEPT !.pc = "validated",
                        !.err = IF cf.WatchDir = <<>> THEN "ErrWatchDirRequired"
                                ELSE IF cf.OutputDir = <<>> THEN "ErrOutputDirRequired"
                                ELSE "nil"]
    /\ UNCHANGED notCf

NextConfig ==
    \/ \E homeOk \in BOOLEAN : CfgLoad(homeOk)
    \/ CfgApplyDefaults
    \/ CfgValidate

SpecConfig == InitConfig /\ [][NextConfig]_vars

\* ------------------------------------------------------------------ vault
\* everything but vt
notVt ==
    <<envVars, fsVars, watcherVars, runVars, workers, rc, dmVars, pf, stab, wch, lg, ar,
      wr, cf, ow, sv, st>>

\* the directories: 0 is the filesystem root, d + 1 a child of d
Dirs == Elsewhere .. MaxDepth

\* FindVaultRoot is called in any working directory, with any of the
\* directories being vaults, and NOTA_VAULT_ROOT unset (NoDir) or naming one
InitVault ==
    /\ PipelineIdle
    /\ UnitsIdle("vt")
    /\ vt \in { [VtIdle EXCEPT !.pc = "call", !.vaults = v, !.cwd = c, !.env = e] :
                  v \in SUBSET Dirs, c \in 0 .. MaxDepth, e \in Dirs \cup { NoDir } }

\* FindVaultRootFrom: IsVault(current), else its parent, up to the root
RECURSIVE FindVaultRootFrom(_, _)
FindVaultRootFrom(vaults, current) ==
    IF current \in vaults THEN [root |-> current, err |-> "nil"]
    ELSE IF current = 0 THEN [root |-> NoDir, err |-> "ErrNotInVault"]
    ELSE FindVaultRootFrom(vaults, current - 1)

\* FindVaultRoot's result; wdOk = os.Getwd succeeds
VaultRoot(vaults, cwd, env, wdOk) ==
    IF env # NoDir
    THEN IF env \in vaults THEN [root |-> env, err |-> "nil"]
         ELSE [root |-> NoDir, err |-> "ErrNotInVault"]
    ELSE IF ~wdOk THEN [root |-> NoDir, err |-> "getwd"]
    ELSE FindVaultRootFrom(vaults, cwd)

\* FindVaultRoot
FindVaultRoot(wdOk) ==
    /\ vt.pc = "call"
    /\ LET r == VaultRoot(vt.vaults, vt.cwd, vt.env, wdOk)
       IN  vt' = [vt EXCEPT !.pc = "done", !.wdOk = wdOk, !.root = r.root, !.err = r.err]
    /\ UNCHANGED notVt

NextVault == \E wdOk \in BOOLEAN : FindVaultRoot(wdOk)

SpecVault == InitVault /\ [][NextVault]_vars

\* ---------------------------------------- output.Writer, concurrent calls
\* everything but ow
notOw ==
    <<envVars, fsVars, watcherVars, runVars, workers, rc, dmVars, pf, stab, wch, lg, ar,
      wr, cf, vt, sv, st>>

\* The output directory holds the first p names of the minute, written by
\* earlier calls (text -1); both calls are about to enter Write with the same
\* OutputDir and Timestamp; text c is the transcription call c was given.
InitOutput2 ==
    /\ PipelineIdle
    /\ UnitsIdle("ow")
    /\ \E p \in 0 .. MaxPre :
          ow = [OwIdle EXCEPT
                  !.text = [n \in OwNames |-> IF n <= p THEN -1 ELSE 0],
                  !.call = [c \in Writers |-> [@[c] EXCEPT !.pc = "call"]]]

\* Write up to generateFilename's first candidate: the select on ctx.Done, the
\* OutputDir check and MkdirAll
OwBegin(c, ctx, okdir) ==
    /\ ow.call[c].pc = "call"
    /\ ow' = IF ~ctx THEN [ow EXCEPT !.call[c].pc = "done", !.call[c].ret = "ctx"]
             ELSE IF ~okdir THEN [ow EXCEPT !.call[c].pc = "done", !.call[c].ret = "err"]
             ELSE [ow EXCEPT !.call[c].pc = "probe", !.call[c].cand = 1]
    /\ UNCHANGED notOw

\* generateFilename: one os.Stat(candidate): the name is returned if it does
\* not exist, else the next suffix is tried, up to 1000
OwProbe(c) ==
    /\ ow.call[c].pc = "probe"
    /\ LET i == ow.call[c].cand
       IN  ow' = IF ow.text[i] = 0 THEN [ow EXCEPT !.call[c].pc = "write"]
                 ELSE IF i + 1 > SuffixCap
                 THEN [ow EXCEPT !.call[c].pc = "done", !.call[c].ret = "too many"]
                 ELSE [ow EXCEPT !.call[c].cand = i + 1]
    /\ UNCHANGED notOw

\* Write: generateContent and os.WriteFile(outputPath, content, 0644), which
\* creates the file or truncates the one that is there
OwWriteFile(c, oktpl, okio) ==
    /\ ow.call[c].pc = "write"
    /\ LET i == ow.call[c].cand
       IN  ow' = IF ~oktpl \/ ~okio
                 THEN [ow EXCEPT !.call[c].pc = "done", !.call[c].ret = "err"]
                 ELSE [ow EXCEPT !.text[i] = c, !.call[c].pc = "done",
                                 !.call[c].ret = "nil", !.call[c].path = i]
    /\ UNCHANGED notOw

NextOutput2 ==
    \E c \in Writers :
       \/ \E ctx \in BOOLEAN, okdir \in BOOLEAN : OwBegin(c, ctx, okdir)
       \/ OwProbe(c)
       \/ \E oktpl \in BOOLEAN, okio \in BOOLEAN : OwWriteFile(c, oktpl, okio)

SpecOutput2 == InitOutput2 /\ [][NextOutput2]_vars

\* ------------------------------------------------- Service.Run and Stop
\* everything but sv
notSv ==
    <<envVars, fsVars, watcherVars, runVars, workers, rc, dmVars, pf, stab, wch, lg, ar,
      wr, cf, vt, ow, st>>

InitStop == PipelineIdle /\ UnitsIdle("sv") /\ sv = SvIdle

\* the process runs
SvAlive == sv.run \in { "loop", "waiting" }

\* close(s.stopCh): closing a closed channel panics, and the process dies
CloseStopCh(s) ==
    IF s.closes >= 1 THEN [s EXCEPT !.closes = @ + 1, !.run = "panicked"]
    ELSE [s EXCEPT !.closes = 1]

\* Service.Stop(), called from another goroutine: close(s.stopCh)
SvStop ==
    /\ SvAlive
    /\ sv.stops < MaxStops
    /\ sv' = CloseStopCh([sv EXCEPT !.stops = @ + 1])
    /\ UNCHANGED notSv

\* the caller of Run cancels its context
SvCancel ==
    /\ SvAlive
    /\ ~sv.ctxDone
    /\ sv' = [sv EXCEPT !.ctxDone = TRUE]
    /\ UNCHANGED notSv

\* SIGINT or SIGTERM is delivered into sigCh
SvSignal ==
    /\ SvAlive
    /\ ~sv.sig
    /\ sv' = [sv EXCEPT !.sig = TRUE]
    /\ UNCHANGED notSv

\* the watcher's goroutine returns and closes the events channel
SvWatcherCloses ==
    /\ SvAlive
    /\ ~sv.evClosed
    /\ sv' = [sv EXCEPT !.evClosed = TRUE]
    /\ UNCHANGED notSv

\* Run: case event, ok := <-events with ok: handleFileEvent, wg.Add(1)
SvDispatch ==
    /\ sv.run = "loop"
    /\ ~sv.evClosed
    /\ sv.inflight < MaxInFlight
    /\ sv' = [sv EXCEPT !.inflight = @ + 1]
    /\ UNCHANGED notSv

\* a worker's processFile returns: wg.Done()
SvWorkerDone ==
    /\ SvAlive
    /\ sv.inflight > 0
    /\ sv' = [sv EXCEPT !.inflight = @ - 1]
    /\ UNCHANGED notSv

\* Run takes case <-ctx.Done(), case sig := <-sigCh (and calls cancel()), or
\* case <-events with !ok; shutdown: close(s.stopCh), s.watcher.Stop()
SvShutdown(case) ==
    /\ sv.run = "loop"
    /\ \/ case = "ctx" /\ sv.ctxDone
       \/ case = "sig" /\ sv.sig
       \/ case = "closed" /\ sv.evClosed
    /\ LET s == CloseStopCh([sv EXCEPT !.ctxDone = @ \/ case = "sig",
                                       !.sig = IF case = "sig" THEN FALSE ELSE @])
       IN  sv' = IF s.run = "panicked" THEN s
                 ELSE [s EXCEPT !.run = "waiting", !.wStopped = TRUE]
    /\ UNCHANGED notSv

\* shutdown: wg.Wait() returns, s.logger.Close(); Run returns and the deferred
\* cancel() runs
SvReturn ==
    /\ sv.run = "waiting"
    /\ sv.inflight = 0
    /\ sv' = [sv EXCEPT !.run = "returned", !.logClosed = TRUE, !.ctxDone = TRUE]
    /\ UNCHANGED notSv

NextStop ==
    \/ SvStop
    \/ SvCancel
    \/ SvSignal
    \/ SvWatcherCloses
    \/ SvDispatch
    \/ SvWorkerDone
    \/ \E case \in { "ctx", "sig", "closed" } : SvShutdown(case)
    \/ SvReturn

\* Run's goroutine and the workers are scheduled; nothing makes the caller
\* cancel, a signal arrive or the watcher end
SpecStop ==
    /\ InitStop
    /\ [][NextStop]_vars
    /\ WF_vars(\E case \in { "ctx", "sig", "closed" } : SvShutdown(case))
    /\ WF_vars(SvWorkerDone)
    /\ WF_vars(SvReturn)

\* ------------------------------------------------------- status snapshot
\* everything but st
notSt ==
    <<envVars, fsVars, watcherVars, runVars, workers, rc, dmVars, pf, stab, wch, lg, ar,
      wr, cf, vt, ow, sv>>

\* source and output paths, as characters: a letter or a blank
NameChars == { "a", " " }
LogNames == UNION { [1 .. n -> NameChars] : n \in 1 .. MaxName }

\* the white space of formatValue and of the pattern's \s and \S
White == { " ", "\t", "\n" }

\* formatValue for a string: %q when it holds white space (the characters of
\* NameChars need no escape inside the quotes)
formatValue(s) ==
    IF \E k \in 1 .. Len(s) : s[k] \in White THEN <<"\"">> \o s \o <<"\"">> ELSE s

KeyPath == <<"p", "a", "t", "h", "=">>
KeyOutput == <<"o", "u", "t", "p", "u", "t", "=">>
KeyElapsed == <<"e", "l", "a", "p", "s", "e", "d", "=", "1", "s">>

\* writeLog for processFile's "file processing complete": the fields that
\* follow "<timestamp> INFO  [pipeline] file processing complete "
Fields(path, out) ==
    KeyPath \o formatValue(path) \o <<" ">> \o KeyOutput \o formatValue(out)
       \o <<" ">> \o KeyElapsed

\* the last index of the longest run of characters of s from index from on
\* that are white (w) or not white (~w); from - 1 when the run is empty
RunEnd(s, from, w) ==
    LET ends == { k \in from .. Len(s) : \A j \in from .. k : (s[j] \in White) = w }
    IN  IF ends = { } THEN from - 1 ELSE CHOOSE k \in ends : \A j \in ends : j <= k

\* s holds lit at index from
HasAt(s, from, lit) ==
    /\ from + Len(lit) - 1 <= Len(s)
    /\ SubSeq(s, from, from + Len(lit) - 1) = lit

\* completedPattern on the fields of a completion line:
\* path=(\S+)\s+output=(\S+)
completedPattern(f) ==
    LET p1 == Len(KeyPath) + 1
        p2 == RunEnd(f, p1, FALSE)
        s2 == RunEnd(f, p2 + 1, TRUE)
        o1 == s2 + 1 + Len(KeyOutput)
        o2 == RunEnd(f, o1, FALSE)
    IN  IF /\ HasAt(f, 1, KeyPath)
           /\ p2 >= p1
           /\ s2 >= p2 + 1
           /\ HasAt(f, s2 + 1, KeyOutput)
           /\ o2 >= o1
        THEN [ok |-> TRUE, path |-> SubSeq(f, p1, p2), out |-> SubSeq(f, o1, o2)]
        ELSE [ok |-> FALSE, path |-> << >>, out |-> << >>]

\* unquoteIfNeeded
unquoteIfNeeded(s) ==
    IF Len(s) >= 2 /\ s[1] = "\"" /\ s[Len(s)] = "\""
    THEN SubSeq(s, 2, Len(s) - 1)
    ELSE s

\* ParseLogFile: FilesProcessed counts the lines the pattern matches and
\* LastProcessed is taken from the last of them
ParseLogFile(log) ==
    LET hits == { k \in 1 .. Len(log) : completedPattern(log[k].fields).ok }
        k == CHOOSE h \in hits : \A j \in hits : j <= h
    IN  [ files |-> Cardinality(hits),
          last |-> IF hits = { }
                   THEN [set |-> FALSE, ts |-> 0, path |-> << >>, out |-> << >>]
                   ELSE [set |-> TRUE, ts |-> log[k].ts,
                         path |-> unquoteIfNeeded(completedPattern(log[k].fields).path),
                         out |-> unquoteIfNeeded(completedPattern(log[k].fields).out)] ]

InitStatus == PipelineIdle /\ UnitsIdle("st") /\ st = StIdle

\* a worker reaches done: processFile logs "file processing complete" with
\* the source path and the output path
StComplete(path, out) ==
    /\ Len(st.done) < MaxDone
    /\ LET ts == Len(st.done) + 1
       IN  st' = [st EXCEPT !.done = Append(@, [ts |-> ts, path |-> path, out |-> out]),
                            !.log = Append(@, [ts |-> ts, fields |-> Fields(path, out)]),
                            !.parsed = FALSE]
    /\ UNCHANGED notSt

\* transcribe status: ParseTodayStats
StParse ==
    /\ ~st.parsed
    /\ LET s == ParseLogFile(st.log)
       IN  st' = [st EXCEPT !.parsed = TRUE, !.files = s.files, !.last = s.last]
    /\ UNCHANGED notSt

NextStatus ==
    \/ \E path \in LogNames, out \in LogNames : StComplete(path, out)
    \/ StParse

SpecStatus == InitStatus /\ [][NextStatus]_vars

TypeOK ==
    /\ clock \in 0 .. MaxClock
    /\ emitted \in 0 .. MaxArrivals
    /\ Len(events) <= ChanCap
    /\ archive \subseteq ArchPaths
    /\ \A i \in EventIds : Len(workers[i].answers) <= DefaultRetryCount + MaxRetryCfg
    /\ runpc \in { "loop", "waiting", "returned", "crashed" }
    /\ pidFile \in Pids \cup { NoPid }
    /\ \A p \in Pids :
          procs[p] \in { "none", "starting", "loading", "running", "stopping",
                         "stopped", "exiting", "exited" }
    /\ \A k \in CmdIds :
          /\ cmds[k].kind \in { "none", "start", "stop", "status" }
          /\ cmds[k].child \in Pids \cup { NoPid }
          /\ cmds[k].sigs \in 0 .. 2

\* ----------------------------------------------------------------- claims
\* worker i takes its last step in this transition, and ends in pc
Ends(i, pc) == workers[i].pc \notin Terminal /\ workers'[i].pc = pc

\* the archive tree holds a file relocated from the source named n
Archived(arch, n) == \E d \in arch : d.stem = n.stem /\ d.ext = n.ext

\* C1: at the moment a worker reaches done, the output artifact of its event
\* exists in the output directory, the source is gone from the watch directory
\* and the archive tree holds the source.
C1_DoneLeavesOutputAndArchive ==
    [][\A i \in EventIds :
         Ends(i, "done") =>
           /\ workers[i].wrote
           /\ outDir'[workers[i].outPath] = i
           /\ ~Present(watchDir', workers[i].path)
           /\ Archived(archive', workers[i].path)]_vars

\* C2: when a worker terminates without reaching done (oversize skip, failure at
\* stabilize, transcribe, write or archive), its source file still exists in
\* the watch directory.
C2_FailureKeepsSource ==
    [][\A i \in EventIds :
         (workers[i].pc # workers'[i].pc /\ workers'[i].pc \in Failed)
           => Present(watchDir', workers'[i].path)]_vars

C4_DistinctSourcesDistinctOutputs ==
    [][\A i \in EventIds :
         (workers[i].pc = "write" /\ workers'[i].pc = "archive") =>
           LET j == outDir[workers'[i].outPath]
           IN  j # 0 => workers[j].path = workers[i].path]_vars

\* C5: an event larger than max_file_size_mb * 1048576 bytes ends its worker at
\* the size check, which touches no file and never moves again (no
\* stabilization, no attempt, no artifact, no archive, no deletion); an event
\* of exactly the limit goes to stabilization.
C5_OversizeSkippedLimitProcessed ==
    [][\A i \in EventIds :
         /\ (workers[i].pc = "none" /\ workers'[i].pc # "none") =>
              LET ev == Head(events)
              IN  /\ ev.id = i
                  /\ ev.size > cfg.MaxFileSizeMB * 1048576 =>
                       /\ workers'[i].pc = "skipped"
                       /\ workers'[i].answers = << >>
                       /\ UNCHANGED fsVars
                  /\ ev.size = cfg.MaxFileSizeMB * 1048576 =>
                       workers'[i].pc = "stabilize"
         /\ workers[i].pc = "skipped" => workers'[i] = workers[i]]_vars

\* C5 witness: a worker was skipped for a file one byte over the limit, and the
\* file is still in the watch directory
C5_Witness ==
    \E i \in EventIds :
       /\ workers[i].pc = "skipped"
       /\ workers[i].size = cfg.MaxFileSizeMB * 1048576 + 1
       /\ Present(watchDir, workers[i].path)

\* C6: when the endpoint answers the first attempt with a 4xx status, the
\* worker makes exactly one attempt, writes no artifact and leaves the source.
C6_ClientErrorNotRetried ==
    \A i \in EventIds :
       (Len(workers[i].answers) > 0 /\ workers[i].answers[1] = "e4xx") =>
          /\ Len(workers[i].answers) = 1
          /\ \A p \in OutPaths : outDir[p] # i
          /\ Present(watchDir, workers[i].path)

\* C7: when every attempt fails with a retryable transport error and nothing
\* is cancelled, the worker makes exactly 1 + retry_count attempts before it
\* terminates in failure.
C7_OnePlusRetryCountAttempts ==
    \A i \in EventIds :
       ( /\ workers[i].pc = "failed_transcribe"
         /\ \A k \in 1 .. Len(workers[i].answers) : workers[i].answers[k] = "e5xx" )
       => Len(workers[i].answers) = 1 + cfg.RetryCount

\* what the claim C8 calls retryable: a network-level error or status 500-599
ClaimRetryable(e) ==
    /\ e.is = "none"
    /\ \/ e.status \in 500 .. 599
       \/ e.status = 0 /\ (e.net \/ e.text)

\* what the claim C8 calls non-retryable: cancellation, deadline exceeded,
\* status 400-499, or an error of no class
ClaimNonRetryable(e) ==
    \/ e.is \in { "canceled", "deadline" }
    \/ e.status \in 400 .. 499
    \/ e.is = "none" /\ ~e.net /\ ~e.text /\ e.status \notin 500 .. 599

\* no call of the wrapped client follows a call that failed with a
\* non-retryable error
NoCallAfterNonRetryable ==
    \A k \in 1 .. Len(rc.errs) :
       ClaimNonRetryable(rc.errs[k]) => k = Len(rc.errs) /\ rc.pc = "returned"

AllRetryable == \A k \in 1 .. Len(rc.errs) : ClaimRetryable(rc.errs[k])

\* C8, as stated: RetryClient.Transcribe makes 1 + max_retry calls when every
\* attempt fails with a retryable error, and no call after an attempt failed
\* with a non-retryable error.
C8_AttemptsAsStated ==
    /\ (rc.pc = "returned" /\ rc.ret # "ok" /\ AllRetryable)
         => Len(rc.errs) = 1 + rc.maxRetry
    /\ NoCallAfterNonRetryable

\* C8, amended: RetryClient.Transcribe makes 1 + max_retry calls when every
\* attempt fails with a retryable error and no wait between attempts is cut by
\* the cancel token, and no call after an attempt failed with a non-retryable
\* error.
C8_AttemptsUnlessCut ==
    /\ (rc.pc = "returned" /\ rc.ret \notin { "ok", "ctxerr" } /\ AllRetryable)
         => /\ Len(rc.errs) = 1 + rc.maxRetry
            /\ rc.ret = "exhausted"
    /\ NoCallAfterNonRetryable

\* C8 witness: all 1 + max_retry calls failed with retryable errors, with at
\* least one retry
C8_Witness ==
    /\ rc.pc = "returned"
    /\ rc.ret = "exhausted"
    /\ rc.maxRetry >= 1
    /\ Len(rc.errs) = 1 + rc.maxRetry
    /\ AllRetryable

\* C9: if the cancel token fires while RetryClient.Transcribe waits between
\* attempts, the call returns the cancellation error in its next step, without
\* waiting out the delay and without another call of the wrapped client.
C9_WaitCutByCancel ==
    [][/\ (rc.pc = "wait" /\ rc.ctxDone) =>
            /\ rc'.pc = "returned"
            /\ rc'.ret = "ctxerr"
            /\ rc'.remaining = rc.remaining
            /\ rc'.errs = rc.errs
       /\ rc.pc = "returned" => rc' = rc]_vars

\* C9 witness: the call returned the cancellation error out of a wait that had
\* time left, after one call of the wrapped client
C9_Witness ==
    /\ rc.pc = "returned"
    /\ rc.ret = "ctxerr"
    /\ rc.remaining > 0
    /\ Len(rc.errs) >= 1

\* C10: every event the watcher emitted is handed to a worker: once Run has
\* returned, no emitted event is left without a worker.
C10_NoEmittedEventDropped ==
    runpc = "returned" => \A id \in 1 .. emitted : workers[id].pc # "none"

\* worker i is between its dispatch and its termination
Running(i) == workers[i].pc \notin Terminal \cup { "none" }

\* C11: at no time are two workers at work on the same source path, even when
\* the watcher reports a file more than once.
C11_OneWorkerPerPath ==
    \A i \in EventIds, j \in EventIds :
       (i # j /\ Running(i) /\ Running(j)) => workers[i].path # workers[j].path

\* C12: once shutdown has begun the watcher is stopped; Run returns (the log
\* closed) only when every dispatched worker is terminal; after shutdown has
\* begun no worker is dispatched, and after Run has returned no worker moves.
C12_ShutdownWaitsForWorkers ==
    [][/\ runpc' \in { "waiting", "returned" } => wStopped'
       /\ runpc' = "returned" => \A i \in EventIds : ~Running(i)'
       /\ runpc \in { "waiting", "returned" } =>
            \A i \in EventIds : workers[i].pc = "none" => workers'[i].pc = "none"
       /\ runpc = "returned" => workers' = workers]_vars

\* C12 witness: Run has returned from a shutdown and a worker that was
\* dispatched has run to its end
C12_Witness ==
    /\ runpc = "returned"
    /\ wStopped
    /\ \E i \in EventIds : workers[i].pc \in Terminal \ { "skipped" }

\* C13: no outcome of a worker stage, for any validated configuration, makes
\* the orchestrator panic.
C13_NoPanic == runpc # "crashed"

\* C14: a source file that is in the watch directory when the orchestrator
\* starts is eventually handed to a worker, unless a file is written or the
\* service is cancelled, stopped or left without its watcher first.
C14_LeftoverRedetected ==
    <>( \/ \E i \in EventIds : workers[i].pc # "none" /\ workers[i].path = Leftover
        \/ budget = 0
        \/ ctxDone
        \/ runpc # "loop"
        \/ wpc # "reading" )

\* command k returns in this step
Returns(k) == cmds[k].pc # "done" /\ cmds'[k].pc = "done"

\* C15: however start --daemon invocations interleave, once they have all
\* returned at most one daemon child is left running.
C15_AtMostOneDaemon ==
    (\A k \in CmdIds : cmds[k].kind \in { "none", "start" } /\ cmds[k].pc \in { "none", "done" })
        => Cardinality({ p \in Pids : procs[p] = "running" }) <= 1

\* C16: a start --daemon that finds the PID file naming a live process returns
\* the already-running error, has spawned no child and has not written or
\* removed the PID file.
C16_StartRefusedWhenRunning ==
    \A k \in CmdIds :
       (cmds[k].kind = "start" /\ cmds[k].found = "running") =>
          /\ cmds[k].pc = "done"
          /\ cmds[k].ret = "err"
          /\ cmds[k].msg = "already running"
          /\ cmds[k].child = NoPid
          /\ ~cmds[k].touched

C16_Witness ==
    \E k \in CmdIds :
       /\ cmds[k].kind = "start" /\ cmds[k].found = "running" /\ cmds[k].pc = "done"
       /\ pidFile # NoPid /\ procs[pidFile] = "running"

\* C17: when a start --daemon that found no PID file returns success, the PID
\* file names a process that is running.
C17_StartedDaemonRuns ==
    [][\A k \in CmdIds :
          (/\ Returns(k)
           /\ cmds'[k].kind = "start"
           /\ cmds'[k].found = "absent"
           /\ cmds'[k].ret = "ok")
          => (pidFile' # NoPid /\ ProcAlive(procs', pidFile'))]_vars

\* C18: when a stop that found a running daemon returns success, the PID file
\* is absent and the process it signalled no longer exists.
C18_StoppedDaemonGone ==
    [][\A k \in CmdIds :
          (/\ Returns(k)
           /\ cmds'[k].kind = "stop"
           /\ cmds'[k].found = "running"
           /\ cmds'[k].ret = "ok")
          => (pidFile' = NoPid /\ ~ProcAlive(procs', cmds'[k].pid))]_vars

\* C19: a stop that finds the PID file absent or stale returns success,
\* reports not running and has sent no signal; every stop that returns success
\* leaves no PID file, so a stop right after it finds none.
C19_StopWhenNotRunning ==
    [][\A k \in CmdIds :
          (Returns(k) /\ cmds'[k].kind = "stop") =>
             /\ cmds'[k].found \in { "absent", "stale" } =>
                  /\ cmds'[k].ret = "ok"
                  /\ cmds'[k].msg = "not running"
                  /\ cmds'[k].sigs = 0
             /\ cmds'[k].ret = "ok" => pidFile' = NoPid]_vars

C19_Witness ==
    \E k \in CmdIds :
       /\ cmds[k].kind = "stop" /\ cmds[k].pc = "done"
       /\ cmds[k].found = "stale" /\ cmds[k].msg = "not running"
       /\ pidFile = NoPid

\* C20: when a status that finds a stale PID file returns, it has reported
\* not running and the PID file is absent.
C20_StatusCleansStale ==
    [][\A k \in CmdIds :
          (/\ Returns(k)
           /\ cmds'[k].kind = "status"
           /\ cmds'[k].found = "stale")
          => (cmds'[k].msg = "not running" /\ pidFile' = NoPid)]_vars

\* the trimmed body is a decimal numeral of a positive number
ClaimPositive(body) ==
    LET t == TrimSpace(body)
        d == IF t # <<>> /\ Head(t) = "+" THEN Tail(t) ELSE t
    IN  /\ d # <<>>
        /\ \A i \in 1 .. Len(d) : d[i] \in Digits
        /\ \E i \in 1 .. Len(d) : d[i] # "0"

\* C21: IsRunning puts every PID file in exactly one class: a missing file is
\* not running without error; a body that is not a positive number is an
\* error, neither running nor stale; a positive PID that fails the probe is
\* stale, with the PID reported; a positive PID that passes it is running.
C21_ClassificationTotalExclusive ==
    pf.done =>
       LET o == pf.out
           invalid == o.err # "nil" /\ ~o.running /\ o.pid = 0
           absent == o.err = "nil" /\ ~o.running /\ o.pid = 0
           stale == o.err = "nil" /\ ~o.running /\ o.pid > 0
           running == o.err = "nil" /\ o.running /\ o.pid > 0
       IN  /\ ~pf.exists => absent
           /\ (pf.exists /\ ~ClaimPositive(pf.body)) => (invalid /\ o.err = "ErrInvalidPID")
           /\ (pf.exists /\ ClaimPositive(pf.body) /\ pf.probe = "ESRCH") => stale
           /\ (pf.exists /\ ClaimPositive(pf.body) /\ pf.probe # "ESRCH") => running

C21_Witness ==
    /\ pf.done
    /\ pf.exists
    /\ TrimSpace(pf.body) = <<"0">>
    /\ pf.out.err = "ErrInvalidPID"

\* number of samples at the end of s that equal the sample before them
RECURSIVE TrailingRun(_)
TrailingRun(s) ==
    IF Len(s) < 2 \/ s[Len(s)] # s[Len(s) - 1] THEN 0
    ELSE 1 + TrailingRun(SubSeq(s, 1, Len(s) - 1))

\* C22: the stable count is the number of latest samples that repeated the
\* size of the sample before them, so the first sample counts for nothing and
\* a change of size sets it to zero; WaitForStable returns nil only with
\* Checks such samples in a row.
C22_StableAfterNEqualSamples ==
    /\ stab.pc \in { "select", "returned" } =>
          stab.stableCount = TrailingRun(stab.samples)
    /\ (stab.pc = "returned" /\ stab.ret = "nil") =>
          TrailingRun(stab.samples) >= stab.checks

C22_Witness ==
    /\ stab.pc = "returned"
    /\ stab.ret = "nil"
    /\ stab.checks = MaxChecks
    /\ Len(stab.samples) > MaxChecks + 1

\* C23: WaitForStable returns the stabilization-timeout error only when
\* Timeout is set, the caller's context has no deadline and the internal
\* timer fired first, and always when it leaves the wait for that reason;
\* when the caller's cancellation or deadline ends the wait, it returns the
\* caller's context error.
C23_TimeoutErrorOnlyInternal ==
    stab.pc = "returned" =>
       /\ stab.ret = "ErrStabilizationTimeout" <=>
             (/\ stab.timeout > 0
              /\ ~stab.callerDeadline
              /\ stab.first = "timer"
              /\ stab.via = "ctx")
       /\ (stab.via = "ctx" /\ stab.first = "caller") => stab.ret = stab.callerErr

C23_Witness ==
    /\ stab.pc = "returned"
    /\ stab.timeout > 0
    /\ stab.callerDeadline
    /\ stab.ret = "DeadlineExceeded"

\* C25: the watcher's channel is closed, and the watcher gone, only after the
\* context was cancelled or Stop() was called; a failed read alone never ends
\* the watcher.
C25_WatcherEndsOnlyOnStop ==
    (eventsClosed \/ wpc = "exited") => (ctxDone \/ wStopped)

\* C24: once the context is cancelled or Stop() was called, the watcher's
\* channel is eventually closed, whatever the consumer does, and it is never
\* closed twice.
C24_ChannelClosedOnce ==
    /\ (wch.ctxDone \/ wch.stopped) ~> (wch.closes = 1)
    /\ [](wch.closes <= 1)

\* logger l is writing to its descriptor, or closing it in a rotation
OnDescriptor(l) ==
    lg.pc[l] = "write" \/ (lg.pc[l] = "rotate" /\ NeedsRotation(l))

\* C26: no two loggers are at once writing to, or rotating, the same
\* descriptor.
C26_LogWritesSerialized ==
    \A l1 \in Loggers, l2 \in Loggers :
       (l1 # l2 /\ OnDescriptor(l1) /\ OnDescriptor(l2)) => lg.file[l1] # lg.file[l2]

\* C27: through an Archive call on an existing source, the source holds its
\* whole content or the destination holds all of it; the source is gone only
\* with the destination complete; and when Archive has returned an error the
\* source still exists.
C27_ArchiveNonLossy ==
    (ar.pc # "idle" /\ ar.size > 0) =>
       LET intact == ar.src.exists /\ ar.src.len = ar.size
           complete == ar.dst.exists /\ ar.dst.mine /\ ar.dst.len = ar.size
       IN  /\ intact \/ complete
           /\ ~ar.src.exists => complete
           /\ (ar.pc = "returned" /\ ar.ret # "nil") => ar.src.exists

\* the names that are free in directory d
FreeNames(d) == (1 .. SuffixCap) \ d

\* C28: a Write call never writes to a name that existed when it began; when it
\* succeeds it has used the first free name of base.md, base-2.md, ...,
\* base-1000.md; it gives up for want of a name only when none of them is
\* free, and then the directory is as before.
C28_WriteUsesFirstFreeName ==
    wr.calls > 0 =>
       /\ ~wr.over
       /\ wr.before \subseteq wr.dir
       /\ wr.ret = "nil" =>
            /\ wr.path \in FreeNames(wr.before)
            /\ \A j \in FreeNames(wr.before) : wr.path <= j
            /\ wr.dir = wr.before \cup { wr.path }
       /\ FreeNames(wr.before) = { } => (wr.ret # "nil" /\ wr.dir = wr.before)
       /\ wr.ret = "too many" => FreeNames(wr.before) = { }

C28_Witness ==
    /\ wr.calls > 0
    /\ wr.ret = "nil"
    /\ wr.path = SuffixCap

\* path p begins with a tilde
Tilde(p) == p # <<>> /\ Head(p) = "~"

\* C29: once the configuration is loaded, defaulted and found valid, none of
\* watch, output, archive and template path begins with a tilde.
C29_NoTildeAfterStartup ==
    (cf.pc = "validated" /\ cf.err = "nil") =>
       /\ ~Tilde(cf.WatchDir)
       /\ ~Tilde(cf.OutputDir)
       /\ ~Tilde(cf.ArchiveDir)
       /\ cf.TemplatePath.set => ~Tilde(cf.TemplatePath.path)

\* the vaults among the working directory and its ancestors
AncestorVaults == { d \in 0 .. vt.cwd : d \in vt.vaults }

\* C30: FindVaultRoot returns the directory NOTA_VAULT_ROOT names when it is
\* set and a vault; otherwise, the variable unset or not naming a vault, the
\* nearest vault among the working directory and its ancestors; it fails with
\* not-in-a-vault only when there is neither.
C30_VaultResolution ==
    (vt.pc = "done" /\ vt.wdOk) =>
       LET envValid == vt.env # NoDir /\ vt.env \in vt.vaults
       IN  /\ envValid => (vt.err = "nil" /\ vt.root = vt.env)
           /\ (~envValid /\ AncestorVaults # { }) =>
                 /\ vt.err = "nil"
                 /\ vt.root \in AncestorVaults
                 /\ \A d \in AncestorVaults : d <= vt.root
           /\ vt.err = "ErrNotInVault" <=> (~envValid /\ AncestorVaults = { })

\* C31: once the root context is cancelled, a worker that has had an answer
\* from the endpoint makes no further transcription attempt (and so no
\* further sleep between attempts): its list of answers grows no more.
C31_NoAttemptAfterCancel ==
    [][ctxDone =>
         \A i \in EventIds :
            workers[i].answers # << >> =>
               Len(workers'[i].answers) <= Len(workers[i].answers)]_vars

\* C32: when two Write calls for one directory and one minute, running at the
\* same time, have both returned a path, the paths differ and each file holds
\* the transcription of the call that returned it.
C32_ConcurrentWritesDistinct ==
    (\A c \in Writers : ow.call[c].pc = "done" /\ ow.call[c].ret = "nil") =>
       /\ ow.call[1].path # ow.call[2].path
       /\ \A c \in Writers : ow.text[ow.call[c].path] = c

\* C33: while no start and no stop command is under way, every daemon child
\* that is running is the one the PID file names.
C33_RunningDaemonRecorded ==
    (\A k \in CmdIds : cmds[k].kind \in { "start", "stop" } => cmds[k].pc = "done")
        => \A p \in Pids : procs[p] = "running" => pidFile = p

\* C34: no logger is about to write to a descriptor that has been closed, and
\* once the service has closed its logger every descriptor that was opened
\* is closed.
C34_NoWriteAfterClose ==
    /\ \A l \in Loggers : lg.pc[l] = "write" => lg.file[l] \notin lg.closed
    /\ lg.shut => \A d \in 1 .. lg.opened : d \in lg.closed

\* C35: whenever the endpoint transcribes a worker's file, the file is at that
\* moment no larger than the configured maximum.
C35_OversizeNeverTranscribed ==
    [][\A i \in EventIds :
          (/\ workers[i].pc = "transcribe"
           /\ workers'[i].pc = "write"
           /\ Len(workers'[i].answers) > Len(workers[i].answers))
          => ~TooLarge(cfg, watchDir[workers[i].path])]_vars

\* C36: no step of an Archive call destroys or replaces a file that was in the
\* archive before the call: such a file is still there, with its own content,
\* after the step.
C36_ArchiveKeepsEarlierFile ==
    [][(ar.dst.exists /\ ~ar.dst.mine /\ ~ar.same)
          => (ar'.dst.exists /\ ~ar'.dst.mine)]_vars

\* C37: once Stop has been called while Run is in its loop, Run eventually
\* has stopped the watcher, closed the log and returned.
C37_StopEndsRun ==
    (sv.stops > 0 /\ sv.run = "loop")
        ~> (sv.run = "returned" /\ sv.wStopped /\ sv.logClosed)

\* C38: the service's stop channel is closed at most once, so that no close
\* panics.
C38_StopChClosedOnce == sv.closes <= 1 /\ sv.run # "panicked"

\* C39: once the root context is cancelled or a termination signal has been
\* taken, every worker reaches a terminal state and Run returns.
C39_RunReturnsAfterCancel ==
    ctxDone ~> (/\ runpc = "returned"
                /\ \A i \in EventIds : workers[i].pc \in Terminal \cup { "none" })

\* C40: the snapshot parsed from the log counts one completed file for each
\* worker that reached done, and its last completion record holds the
\* timestamp, source path and output path of the last such worker.
C40_StatsMatchLog ==
    st.parsed =>
       /\ st.files = Len(st.done)
       /\ st.done # << >> =>
             /\ st.last.set
             /\ st.last.ts = st.done[Len(st.done)].ts
             /\ st.last.path = st.done[Len(st.done)].path
             /\ st.last.out = st.done[Len(st.done)].out

====
